---- MODULE Spec2Model ----
(***************************************************************************)
(* Verification model of the ABC compiler front-end: the type registry     *)
(* (src/src/type.cpp, src/type/functiontype.cpp), the type algebra         *)
(* (src/type/type.cpp: equals, common, convert, explicitCast) and the      *)
(* promotion rules (src/expr/promotion.cpp).                               *)
(*                                                                         *)
(* A type reference is modelled by the value of the registry node it       *)
(* points to.  Every registry is a std::set (or a map), so it holds at     *)
(* most one node per key; a node erased by Type::remove and inserted again *)
(* is a new allocation, which the field gen tells apart from the old one.  *)
(* Struct nodes are mutable (Type::complete), so a struct reference is the *)
(* pair (map, key) and its data is read from the map.                      *)
(***************************************************************************)
EXTENDS Integers, Sequences, FiniteSets, TLC

\* ---- bounds of the model ------------------------------------------------
MaxTypes == 3
MaxParams == 1
MaxStructs == 2
MaxMembers == 1
MaxRemoves == 1

\* ---- input domains ------------------------------------------------------
IntBits == {8}
Dims == {2}
AliasNames == {"A"}
StructNames == {"S"}
MemberNames == {"x"}

VARIABLES
    intTypeSet,      \* std::set<Integer>   (integers, bool, void)
    ptrTypeSet,      \* std::set<Pointer>
    arrayTypeSet,    \* std::set<Array>
    fnTypeSet,       \* std::set<Function>      (src/src/type.cpp)
    fnSet,           \* std::set<FunctionType>  (src/type/functiontype.cpp)
    structMap,       \* id -> struct data
    constStructMap,  \* id -> struct data of the const flavor
    structId,        \* the static id counter of createIncompleteStruct
    namedType,       \* type names of the current scope (Symtab)
    removed,         \* keys of nodes that Type::remove has erased
    res,             \* the last observed call: its inputs, result and warnings
    calls            \* the constructor calls made so far, each with the reference it returned

vars == <<intTypeSet, ptrTypeSet, arrayTypeSet, fnTypeSet, fnSet, structMap,
          constStructMap, structId, namedType, removed, res, calls>>

Nil == [kind |-> "nil"]

NoRes == [op |-> "none", in |-> <<>>, out |-> Nil, warn |-> {}]

\* A failed assert(): the process is gone and the call returns nothing.
Abort == [kind |-> "abort"]

\* ---- type nodes ---------------------------------------------------------
\* Integer() : Type{VOID, IntegerData{0, UNSIGNED, true}}
VoidNode == [kind |-> "void", alias |-> "", bits |-> 0, signed |-> FALSE,
             constFlag |-> TRUE, gen |-> 0]

IntNode(bits, signed, constFlag, alias) ==
    [kind |-> "int", alias |-> alias, bits |-> bits, signed |-> signed,
     constFlag |-> constFlag, gen |-> 0]

PtrNode(ref, isNull, constFlag, alias) ==
    [kind |-> "ptr", alias |-> alias, isNull |-> isNull, ref |-> ref,
     constFlag |-> constFlag, gen |-> 0]

ArrayNode(ref, dim, alias) ==
    [kind |-> "array", alias |-> alias, ref |-> ref, dim |-> dim, gen |-> 0]

\* struct Function of src/src/type.cpp: no const flag, no alias
FunctionNode(ret, params, varg) ==
    [kind |-> "fn", cls |-> "Function", alias |-> "", ret |-> ret,
     params |-> params, varg |-> varg, constFlag |-> FALSE]

\* class FunctionType of src/type/functiontype.cpp
FunctionTypeNode(ret, params, varg, constFlag, alias) ==
    [kind |-> "fn", cls |-> "FunctionType", alias |-> alias, ret |-> ret,
     params |-> params, varg |-> varg, constFlag |-> constFlag]

StructRef(map, key) == [kind |-> "struct", map |-> map, key |-> key]

\* A floating point type: isFloatType() holds, precision is single (isFloat)
\* or double (isDouble).  The float types are no members of the registries.
FloatNode(precision, constFlag) ==
    [kind |-> "float", alias |-> "", precision |-> precision,
     constFlag |-> constFlag]

\* StructData(id, name): incomplete, not const
NewStructData(id, name) ==
    [id |-> id, name |-> name, isComplete |-> FALSE, constFlag |-> FALSE,
     type |-> <<>>, ident |-> <<>>, index |-> <<>>]

\* The data a struct reference points to.
DataOfW(W, t) == IF t.map = "const" THEN W.cmap[t.key] ELSE W.smap[t.key]

DataOf(t) == IF t.map = "const" THEN constStructMap[t.key] ELSE structMap[t.key]

EmptyMap == [k \in {} |-> Nil]

MapPut(m, k, v) == [x \in DOMAIN m \cup {k} |-> IF x = k THEN v ELSE m[x]]

MapErase(m, k) == [x \in DOMAIN m \ {k} |-> m[x]]

\* ---- accessors ----------------------------------------------------------
isVoid(t) == t.kind = "void"
isInteger(t) == t.kind = "int"
isBool(t) == t.kind = "int" /\ t.bits = 1
isPointer(t) == t.kind = "ptr"
isNullPointer(t) == t.kind = "ptr" /\ t.isNull
isArray(t) == t.kind = "array"
isArrayOrPointer(t) == isArray(t) \/ isPointer(t)
isFunction(t) == t.kind = "fn"
isStruct(t) == t.kind = "struct"
isFloatType(t) == t.kind = "float"
isFloat(t) == isFloatType(t) /\ t.precision = "single"
isDouble(t) == isFloatType(t) /\ t.precision = "double"

hasConstFlag(t) ==
    IF isInteger(t) THEN t.constFlag
    ELSE IF isPointer(t) THEN t.constFlag
    ELSE IF isStruct(t) THEN DataOf(t).constFlag
    ELSE IF isFunction(t) THEN t.constFlag
    ELSE IF isFloatType(t) THEN t.constFlag
    ELSE FALSE

\* ---- the registries as one value ----------------------------------------
World == [int |-> intTypeSet, ptr |-> ptrTypeSet, arr |-> arrayTypeSet,
          ofn |-> fnTypeSet, fn |-> fnSet, smap |-> structMap,
          cmap |-> constStructMap, sid |-> structId, named |-> namedType]

SetWorld(W) ==
    /\ intTypeSet' = W.int
    /\ ptrTypeSet' = W.ptr
    /\ arrayTypeSet' = W.arr
    /\ fnTypeSet' = W.ofn
    /\ fnSet' = W.fn
    /\ structMap' = W.smap
    /\ constStructMap' = W.cmap
    /\ structId' = W.sid
    /\ namedType' = W.named

\* The number of types the registry holds (a struct and its const flavor
\* count once).
WorldSize(W) == Cardinality(W.int) + Cardinality(W.ptr) + Cardinality(W.arr)
                + Cardinality(W.ofn) + Cardinality(W.fn)
                + Cardinality(DOMAIN W.cmap)

StructRefs(W) == {StructRef("struct", k) : k \in DOMAIN W.smap}
                 \cup {StructRef("const", k) : k \in DOMAIN W.cmap}

WorldTypes(W) == W.int \cup W.ptr \cup W.arr \cup W.ofn \cup W.fn
                 \cup StructRefs(W)

\* The references the program holds to nodes that are in a registry now.
LiveTypes == WorldTypes(World)

\* operator< of Integer: (aliasIdent, numBits, kind, hasConstFlag())
IntegerKey(t) == <<t.alias, t.bits, t.signed, hasConstFlag(t)>>

\* operator< of Pointer: (aliasIdent, isNullPointer, refType or null, const)
PointerKey(t) == <<t.alias, t.isNull, IF t.isNull THEN Nil ELSE t.ref, t.constFlag>>

\* operator< of Array: (aliasIdent, refType, dim)
ArrayKey(t) == <<t.alias, t.ref, t.dim>>

\* operator< of Function compares (argType, retType) only.
FunctionKey(t) == <<t.params, t.ret>>

\* operator< of FunctionType compares (ret, name, aka, param, const); aka is
\* computed from ret and param, so it adds nothing to the key.  varg is not
\* part of the key.
FunctionTypeKey(t) == <<t.ret, t.alias, t.params, t.constFlag>>

KeyOf(fld, t) ==
    CASE fld = "int" -> <<fld, IntegerKey(t)>>
      [] fld = "ptr" -> <<fld, PointerKey(t)>>
      [] fld = "arr" -> <<fld, ArrayKey(t)>>
      [] fld = "ofn" -> <<fld, FunctionKey(t)>>
      [] fld = "fn" -> <<fld, FunctionTypeKey(t)>>

\* A fresh allocation: a key never erased gets its first address; a key that
\* was erased before gets the address g (the old one again, or another).
Allocate(fld, cand, g) ==
    IF fld \in {"int", "ptr", "arr"}
    THEN [cand EXCEPT !.gen = IF KeyOf(fld, cand) \in removed THEN g ELSE 0]
    ELSE cand

\* std::set::insert(node).first: the node already there, or the new one.
SetInsert(W, fld, cand, g) ==
    LET old == {o \in W[fld] : KeyOf(fld, o) = KeyOf(fld, cand)} IN
    IF old # {} THEN [w |-> W, out |-> CHOOSE o \in old : TRUE]
    ELSE LET n == Allocate(fld, cand, g)
         IN [w |-> [W EXCEPT ![fld] = @ \cup {n}], out |-> n]

\* ---- constructors (src/src/type.cpp) --------------------------------------
getVoid(W, g) == SetInsert(W, "int", VoidNode, g)

getBool(W, g) == SetInsert(W, "int", IntNode(1, FALSE, FALSE, ""), g)

getInteger(W, numBits, signed, g) ==
    SetInsert(W, "int", IntNode(numBits, signed, FALSE, ""), g)

getUnsignedInteger(W, numBits, g) == getInteger(W, numBits, FALSE, g)

getSignedInteger(W, numBits, g) == getInteger(W, numBits, TRUE, g)

getPointer(W, refType, g) ==
    SetInsert(W, "ptr", PtrNode(refType, FALSE, FALSE, ""), g)

getNullPointer(W, g) == SetInsert(W, "ptr", PtrNode(Nil, TRUE, FALSE, ""), g)

getArray(W, refType, dim, g) ==
    SetInsert(W, "arr", ArrayNode(refType, dim, ""), g)

getFunction(W, retType, argType, hasVarg, g) ==
    SetInsert(W, "ofn", FunctionNode(retType, argType, hasVarg), g)

\* ---- FunctionType (src/type/functiontype.cpp) -----------------------------
FunctionTypeCreate(W, ret, param, varg, constFlag, alias) ==
    SetInsert(W, "fn", FunctionTypeNode(ret, param, varg, constFlag, alias), 0)

FunctionTypeGetAlias(W, t, alias) ==
    FunctionTypeCreate(W, t.ret, t.params, t.varg, FALSE, alias)

FunctionTypeGetConst(W, t) ==
    FunctionTypeCreate(W, t.ret, t.params, t.varg, TRUE, t.alias)

FunctionTypeGetConstRemoved(W, t) ==
    FunctionTypeCreate(W, t.ret, t.params, t.varg, FALSE, t.alias)

\* ---- const flavors --------------------------------------------------------
RECURSIVE TypeGetConst(_, _, _)
TypeGetConst(W, t, g) ==
    IF isInteger(t)
    THEN SetInsert(W, "int", IntNode(t.bits, t.signed, TRUE, ""), g)
    ELSE IF isPointer(t)
    THEN SetInsert(W, "ptr", PtrNode(t.ref, t.isNull, TRUE, ""), g)
    ELSE IF isArray(t)
    THEN LET r == IF t.ref = Nil THEN [w |-> W, out |-> Nil]
                  ELSE TypeGetConst(W, t.ref, g)
         IN getArray(r.w, r.out, t.dim, g)
    ELSE IF isStruct(t)
    THEN [w |-> W, out |-> StructRef("const", DataOf(t).id)]
    ELSE [w |-> W, out |-> Nil]

TypeGetConstRemoved(W, t, g) ==
    IF isInteger(t)
    THEN SetInsert(W, "int", IntNode(t.bits, t.signed, FALSE, ""), g)
    ELSE IF isPointer(t)
    THEN SetInsert(W, "ptr", PtrNode(t.ref, t.isNull, FALSE, ""), g)
    ELSE IF isStruct(t)
    THEN [w |-> W, out |-> StructRef("struct", DataOf(t).id)]
    ELSE [w |-> W, out |-> t]

\* const_of / const_removed_of as the program dispatches them: a FunctionType
\* overrides getConst and getConstRemoved.
getConst(W, t, g) ==
    IF isFunction(t) /\ t.cls = "FunctionType" THEN FunctionTypeGetConst(W, t)
    ELSE TypeGetConst(W, t, g)

getConstRemoved(W, t, g) ==
    IF isFunction(t) /\ t.cls = "FunctionType"
    THEN FunctionTypeGetConstRemoved(W, t)
    ELSE TypeGetConstRemoved(W, t, g)

\* ---- structs ---------------------------------------------------------------
\* index[ident[i]] = i for i = 0 .. size-1: a repeated name keeps its last place
MemberIndex(ident) ==
    [n \in {ident[i] : i \in DOMAIN ident} |->
        CHOOSE i \in DOMAIN ident :
            ident[i] = n /\ \A j \in DOMAIN ident : ident[j] = n => j <= i]

createIncompleteStruct(W, name) ==
    IF name \in DOMAIN W.named
    THEN LET ty == W.named[name] IN
         IF ~isStruct(ty) THEN [w |-> W, out |-> Nil]
         ELSE [w |-> W, out |-> StructRef("struct", DataOfW(W, ty).id)]
    ELSE LET id == W.sid
             ty == StructRef("struct", id)
             data == NewStructData(id, name)
         IN [w |-> [W EXCEPT !.smap = MapPut(@, id, data),
                             !.cmap = MapPut(@, id, [data EXCEPT !.constFlag = TRUE]),
                             !.sid = id + 1,
                             !.named = MapPut(@, name, ty)],
             out |-> ty]

\* type[i] = getConst(structData.type[i]) for every member, in order
RECURSIVE ConstMembers(_, _, _)
ConstMembers(W, type, g) ==
    IF type = <<>> THEN [w |-> W, out |-> <<>>]
    ELSE LET h == TypeGetConst(W, Head(type), g)
             r == ConstMembers(h.w, Tail(type), g)
         IN [w |-> r.w, out |-> <<h.out>> \o r.out]

completeMembers(W, this, ident, type, g) ==
    LET structData == DataOfW(W, this)
        c == ConstMembers(W, type, g)
        newData == [structData EXCEPT !.isComplete = TRUE, !.ident = ident,
                                      !.type = type, !.index = MemberIndex(ident)]
        constData == [c.w.cmap[structData.id] EXCEPT
                         !.isComplete = TRUE, !.ident = ident,
                         !.type = c.out, !.index = MemberIndex(ident)]
        W1 == [c.w EXCEPT !.smap = MapPut(@, this.key, newData)]
    IN [w |-> [W1 EXCEPT !.cmap = MapPut(@, structData.id, constData)],
        out |-> this]

\* complete() without its isComplete guard.
completeAgain(W, this, ident, type, g) == completeMembers(W, this, ident, type, g)

complete(W, this, ident, type, g) ==
    LET structData == DataOfW(W, this) IN
    IF structData.isComplete THEN [w |-> W, out |-> Nil]
    ELSE completeMembers(W, this, ident, type, g)

createAlias(W, aliasIdent, forType, g) ==
    IF isInteger(forType)
    THEN SetInsert(W, "int", [forType EXCEPT !.alias = aliasIdent, !.gen = 0], g)
    ELSE IF isPointer(forType)
    THEN SetInsert(W, "ptr", [forType EXCEPT !.alias = aliasIdent, !.gen = 0], g)
    ELSE IF isArray(forType)
    THEN SetInsert(W, "arr", [forType EXCEPT !.alias = aliasIdent, !.gen = 0], g)
    ELSE IF isStruct(forType)
    THEN LET r == createIncompleteStruct(W, aliasIdent)
             ty == r.out
         IN [w |-> [r.w EXCEPT !.smap = MapPut(@, ty.key, DataOfW(W, forType))],
             out |-> ty]
    ELSE [w |-> W, out |-> Nil]

\* Type::remove: erase the node from its set (a struct from structMap only)
remove(W, ty) ==
    IF isInteger(ty)
    THEN [W EXCEPT !.int = {o \in @ : KeyOf("int", o) # KeyOf("int", ty)}]
    ELSE IF isPointer(ty)
    THEN [W EXCEPT !.ptr = {o \in @ : KeyOf("ptr", o) # KeyOf("ptr", ty)}]
    ELSE IF isArray(ty)
    THEN [W EXCEPT !.arr = {o \in @ : KeyOf("arr", o) # KeyOf("arr", ty)}]
    ELSE IF isStruct(ty)
    THEN [W EXCEPT !.smap = MapErase(@, DataOfW(W, ty).id)]
    ELSE W

removedKey(ty) ==
    IF isInteger(ty) THEN {KeyOf("int", ty)}
    ELSE IF isPointer(ty) THEN {KeyOf("ptr", ty)}
    ELSE IF isArray(ty) THEN {KeyOf("arr", ty)}
    ELSE {}

\* ---- the type algebra (src/type/type.cpp) ------------------------------------
\* equals with the const flag left out of the comparison.
RECURSIVE equalsIgnoringConst(_, _)
equalsIgnoringConst(ty1, ty2) ==
    IF isVoid(ty1) /\ isVoid(ty2) THEN TRUE
    ELSE IF isInteger(ty1) /\ isInteger(ty2)
    THEN ty1.signed = ty2.signed /\ ty1.bits = ty2.bits
    ELSE IF isPointer(ty1) /\ isPointer(ty2)
    THEN IF ty1.isNull \/ ty2.isNull THEN ty1.isNull = ty2.isNull
         ELSE equalsIgnoringConst(ty1.ref, ty2.ref)
    ELSE IF isStruct(ty1) /\ isStruct(ty2) THEN DataOf(ty1).id = DataOf(ty2).id
    ELSE IF isArray(ty1) /\ isArray(ty2)
    THEN ty1.dim = ty2.dim /\ equalsIgnoringConst(ty1.ref, ty2.ref)
    ELSE IF isFunction(ty1) /\ isFunction(ty2)
    THEN /\ equalsIgnoringConst(ty1.ret, ty2.ret)
         /\ ty1.varg = ty2.varg
         /\ Len(ty1.params) = Len(ty2.params)
         /\ \A i \in 1..Len(ty1.params) :
                equalsIgnoringConst(ty1.params[i], ty2.params[i])
    ELSE FALSE

\* Type::equals.  The accessors it calls never look at the alias name.
RECURSIVE equals(_, _)
equals(ty1, ty2) ==
    IF hasConstFlag(ty1) # hasConstFlag(ty2) THEN FALSE
    ELSE IF isVoid(ty1) /\ isVoid(ty2) THEN TRUE
    ELSE IF isInteger(ty1) /\ isInteger(ty2)
    THEN ty1.signed = ty2.signed /\ ty1.bits = ty2.bits
    ELSE IF isFloatType(ty1) /\ isFloatType(ty2)
    THEN (isFloat(ty1) /\ isFloat(ty2)) \/ (isDouble(ty1) /\ isDouble(ty2))
    ELSE IF isPointer(ty1) /\ isPointer(ty2)
    THEN IF ty1.isNull \/ ty2.isNull THEN ty1.isNull = ty2.isNull
         ELSE equals(ty1.ref, ty2.ref)
    ELSE IF isStruct(ty1) /\ isStruct(ty2) THEN DataOf(ty1).id = DataOf(ty2).id
    ELSE IF isArray(ty1) /\ isArray(ty2)
    THEN ty1.dim = ty2.dim /\ equals(ty1.ref, ty2.ref)
    ELSE IF isFunction(ty1) /\ isFunction(ty2)
    THEN /\ equals(ty1.ret, ty2.ret)
         /\ ty1.varg = ty2.varg
         /\ Len(ty1.params) = Len(ty2.params)
         /\ \A i \in 1..Len(ty1.params) : equals(ty1.params[i], ty2.params[i])
    ELSE FALSE

\* dim = 0 is the unbound array.
isUnboundArray(t) == isArray(t) /\ t.dim = 0

Max(a, b) == IF a >= b THEN a ELSE b

Ret(W, out) == [w |-> W, out |-> out]

\* The one element of a singleton set: Val({e(x) : x \in {call}}) is e of the
\* call's result, the call made once.
Val(S) == CHOOSE x \in S : TRUE

\* getConstRemoved(ty1) and then getConstRemoved(ty2), as the functions below
\* begin: the registry after both calls and the two results.
bothConstRemoved(W, ty1, ty2, g) ==
    Val({Val({[w |-> c2.w, ty1 |-> c1.out, ty2 |-> c2.out]
              : c2 \in {getConstRemoved(c1.w, ty2, g)}})
         : c1 \in {getConstRemoved(W, ty1, g)}})

\* Type::common after the two getConstRemoved calls (c), before getConst().
commonRemoved(c, ty1, ty2, g) ==
    IF equals(c.ty1, c.ty2) THEN Ret(c.w, ty1)
    ELSE IF isArray(ty1) /\ isArray(ty2)
    THEN IF equals(ty1.ref, ty2.ref) THEN getPointer(c.w, ty1.ref, g)
         ELSE Ret(c.w, Nil)
    ELSE IF isFloatType(ty1) /\ isInteger(ty2) THEN Ret(c.w, ty1)
    ELSE IF isInteger(ty1) /\ isInteger(ty2)
    THEN IF ~ty1.signed \/ ~ty2.signed
         THEN getUnsignedInteger(c.w, Max(ty1.bits, ty2.bits), g)
         ELSE getSignedInteger(c.w, Max(ty1.bits, ty2.bits), g)
    ELSE IF isPointer(ty1) /\ isNullPointer(ty2) THEN Ret(c.w, ty1)
    ELSE IF isNullPointer(ty1) /\ isPointer(ty2) THEN Ret(c.w, ty2)
    ELSE Ret(c.w, Nil)

\* Type::common without the final getConst() call.  An integer and a floating
\* point type are swapped first, so that the float type is ty1.
commonOf(W, ty1, ty2, g) ==
    IF isInteger(ty1) /\ isFloatType(ty2)
    THEN commonRemoved(bothConstRemoved(W, ty2, ty1, g), ty2, ty1, g)
    ELSE commonRemoved(bothConstRemoved(W, ty1, ty2, g), ty1, ty2, g)

\* The end of Type::common.  The const flavor is looked up (and so registered)
\* when either side is const, but the call's result is dropped: common is
\* returned.
commonConst(c, ty1, ty2, g) ==
    IF c.out # Nil /\ (hasConstFlag(ty1) \/ hasConstFlag(ty2))
    THEN Ret(getConst(c.w, c.out, g).w, c.out)
    ELSE c

\* Type::common
common(W, ty1, ty2, g) == commonConst(commonOf(W, ty1, ty2, g), ty1, ty2, g)

\* static convert(from, to, checkConst)
RECURSIVE abcConvert(_, _, _, _, _)

\* "if (!convert(refType, refType, ..)) return nullptr;" and the final
\* "return to" of the array cases; r is the result of the inner convert.
refConverted(r, to) ==
    Ret(r.w, IF r.out = Abort THEN Abort ELSE IF r.out # Nil THEN to ELSE Nil)

\* pointer to pointer: after the inner convert (r) the const-removed pointees
\* have to be equal.
pointeeConverted(r, from, to, g) ==
    IF r.out = Abort \/ r.out = Nil THEN r
    ELSE Val({Ret(c.w, IF equals(c.ty1, c.ty2) THEN to ELSE Nil)
              : c \in {bothConstRemoved(r.w, from.ref, to.ref, g)}})

\* static convert after "from = getConstRemoved(from); to = getConstRemoved(to)"
convertRemoved(W, from, to, checkConst, g) ==
    IF equals(from, to) THEN Ret(W, to)
    ELSE IF isBool(to)
    THEN Ret(W, IF isInteger(from) \/ isPointer(from) THEN to ELSE Nil)
    ELSE IF isFloatType(to)
    THEN Ret(W, IF isInteger(from) \/ isFloatType(from) THEN to ELSE Nil)
    ELSE IF isInteger(to)
    THEN Ret(W, IF isInteger(from) \/ isFloatType(from) THEN to ELSE Nil)
    ELSE IF isPointer(to) /\ isArray(from)
    THEN IF isNullPointer(to) THEN Ret(W, Abort)
         ELSE refConverted(abcConvert(W, from.ref, to.ref, TRUE, g), to)
    ELSE IF isPointer(to) /\ isPointer(from)
    THEN IF isNullPointer(to) THEN Ret(W, Abort)
         ELSE IF isNullPointer(from) THEN Ret(W, to)
         ELSE IF isVoid(from.ref) \/ isVoid(to.ref) THEN Ret(W, to)
         ELSE pointeeConverted(abcConvert(W, from.ref, to.ref, TRUE, g),
                               from, to, g)
    ELSE IF isStruct(from) /\ isStruct(to)
    THEN Ret(W, IF equals(from, to) THEN to ELSE Nil)
    ELSE IF isArray(to) /\ isArray(from)
    THEN IF to.dim # from.dim /\ ~isUnboundArray(to) THEN Ret(W, Nil)
         ELSE refConverted(abcConvert(W, from.ref, to.ref, checkConst, g), to)
    ELSE Ret(W, Nil)

abcConvert(W, from0, to0, checkConst, g) ==
    IF checkConst /\ hasConstFlag(from0) /\ ~hasConstFlag(to0) THEN Ret(W, Nil)
    ELSE Val({convertRemoved(c.w, c.ty1, c.ty2, checkConst, g)
              : c \in {bothConstRemoved(W, from0, to0, g)}})

\* Type::convert
convert(W, from, to, g) == abcConvert(W, from, to, FALSE, g)

\* Type::explicitCast after "auto type = convert(from, to)"
explicitCastConverted(type, from, to) ==
    IF type.out # Nil THEN type
    ELSE IF isPointer(from) /\ isPointer(to) THEN Ret(type.w, to)
    ELSE Ret(type.w, Nil)

\* Type::explicitCast
explicitCast(W, from, to, g) ==
    Val({explicitCastConverted(convert(c.w, c.ty1, c.ty2, g), from, to)
         : c \in {bothConstRemoved(W, from, to, g)}})

\* ---- type casts of src/src/type.cpp ------------------------------------------
\* Type::getRefType: assert(!isNullPointer())
getRefType(t) == IF isNullPointer(t) THEN Abort ELSE t.ref

\* Type::convertArrayOrFunctionToPointer
convertArrayOrFunctionToPointer(W, ty, g) ==
    IF isArray(ty) THEN getPointer(W, ty.ref, g)
    ELSE IF isFunction(ty) THEN getPointer(W, ty, g)
    ELSE Ret(W, ty)

RetWarn(W, out, warn) == [w |-> W, out |-> out, warn |-> warn]

\* getTypeConversion, array or pointer to pointer: c holds the const-removed
\* pointees.
pointerConversion(c, from, to) ==
    RetWarn(c.w, from,
            (IF c.ty1 # c.ty2 /\ ~isVoid(c.ty1) /\ ~isVoid(c.ty2)
             THEN {"casting"} ELSE {})
            \cup (IF ~hasConstFlag(to.ref) /\ hasConstFlag(from.ref)
                  THEN {"discards const qualifier"} ELSE {}))

\* getTypeConversion, "convertArrayOrFunctionToPointer(to)->isPointer()"
integerToPointer(pt, to) ==
    RetWarn(pt.w, IF isPointer(pt.out) THEN to ELSE Nil,
            IF isPointer(pt.out) THEN {"casting"} ELSE {})

\* getTypeConversion, the last two cases; pf is
\* convertArrayOrFunctionToPointer(from).
decayedConversion(pf, from, to, g) ==
    IF isPointer(pf.out) /\ isInteger(to) THEN RetWarn(pf.w, to, {"casting"})
    ELSE IF ~isInteger(from) THEN RetWarn(pf.w, Nil, {})
    ELSE integerToPointer(convertArrayOrFunctionToPointer(pf.w, to, g), to)

\* getTypeConversion after the two getConstRemoved calls (c)
typeConversionRemoved(c, from, to, g) ==
    IF c.ty1 = c.ty2
    THEN RetWarn(c.w, to, IF hasConstFlag(to) /\ ~hasConstFlag(from)
                          THEN {"discards const qualifier"} ELSE {})
    ELSE IF isInteger(from) /\ isInteger(to) THEN RetWarn(c.w, to, {})
    ELSE IF isNullPointer(from) /\ isPointer(to) THEN RetWarn(c.w, from, {})
    ELSE IF isArrayOrPointer(from) /\ isPointer(to)
    THEN IF getRefType(to) = Abort THEN RetWarn(c.w, Abort, {})
         ELSE pointerConversion(bothConstRemoved(c.w, from.ref, to.ref, g),
                                from, to)
    ELSE IF isFunction(from) /\ isPointer(to)
    THEN IF getRefType(to) = Abort THEN RetWarn(c.w, Abort, {})
         ELSE RetWarn(c.w, from, IF from # to.ref /\ ~isVoid(to.ref)
                                 THEN {"casting"} ELSE {})
    ELSE decayedConversion(convertArrayOrFunctionToPointer(c.w, from, g),
                           from, to, g)

\* Type::getTypeConversion; warn is the set of warnings written to error::out()
getTypeConversion(W, from, to, g) ==
    IF from = to THEN RetWarn(W, to, {})
    ELSE typeConversionRemoved(bothConstRemoved(W, from, to, g), from, to, g)

\* ---- the registry as a state machine ---------------------------------------
Init ==
    /\ intTypeSet = {}
    /\ ptrTypeSet = {}
    /\ arrayTypeSet = {}
    /\ fnTypeSet = {}
    /\ fnSet = {}
    /\ structMap = EmptyMap
    /\ constStructMap = EmptyMap
    /\ structId = 0
    /\ namedType = EmptyMap
    /\ removed = {}
    /\ res = NoRes
    /\ calls = {}

\* The address a re-inserted key can get: the old one (0) or another one (1).
Gens == IF removed = {} THEN {0} ELSE {0, 1}

\* Types a pointer can refer to, an array can hold, a function can take.
RefTypes == LiveTypes
ElementTypes == {t \in LiveTypes : ~isVoid(t) /\ ~isFunction(t)}
ParamLists == UNION {[1..n -> ElementTypes] : n \in 0..MaxParams}

\* A struct reference whose node is still in its map.
StructLive(W, t) == isStruct(t) => t.key \in DOMAIN (IF t.map = "const" THEN W.cmap ELSE W.smap)

Returns(r) ==
    /\ WorldSize(r.w) <= MaxTypes
    /\ r.w.sid <= MaxStructs
    /\ SetWorld(r.w)

Constructs(op, in, r) ==
    /\ Returns(r)
    /\ calls' = calls \cup {<<op, in, r.out>>}
    /\ UNCHANGED <<removed, res>>

Calls(r) ==
    /\ Returns(r)
    /\ UNCHANGED <<calls, removed, res>>

GetVoid == \E g \in Gens : Constructs("void", <<>>, getVoid(World, g))

GetBool == \E g \in Gens : Constructs("bool", <<>>, getBool(World, g))

GetSignedInteger ==
    \E g \in Gens, b \in IntBits :
        Constructs("signed", <<b>>, getSignedInteger(World, b, g))

GetUnsignedInteger ==
    \E g \in Gens, b \in IntBits :
        Constructs("unsigned", <<b>>, getUnsignedInteger(World, b, g))

GetPointer ==
    \E g \in Gens, t \in RefTypes :
        Constructs("pointer", <<t>>, getPointer(World, t, g))

GetNullPointer == \E g \in Gens : Constructs("null_pointer", <<>>, getNullPointer(World, g))

GetArray ==
    \E g \in Gens, t \in ElementTypes, d \in Dims :
        Constructs("array", <<t, d>>, getArray(World, t, d, g))

GetFunction ==
    \E g \in Gens, ret \in LiveTypes, arg \in ParamLists, varg \in BOOLEAN :
        Constructs("getFunction", <<ret, arg, varg>>,
                   getFunction(World, ret, arg, varg, g))

CreateFunctionType ==
    \E ret \in LiveTypes, param \in ParamLists, varg \in BOOLEAN :
        Constructs("function", <<ret, param, varg>>,
                   FunctionTypeCreate(World, ret, param, varg, FALSE, ""))

GetConst ==
    \E g \in Gens, t \in LiveTypes :
        Calls(getConst(World, t, g))

GetConstRemoved ==
    \E g \in Gens, t \in LiveTypes :
        /\ isStruct(t) => DataOf(t).id \in DOMAIN structMap
        /\ Calls(getConstRemoved(World, t, g))

CreateAlias ==
    \E g \in Gens, t \in LiveTypes, a \in AliasNames :
        /\ ~(isFunction(t) /\ t.cls = "FunctionType")
        /\ isStruct(t) => /\ a \in DOMAIN namedType => isStruct(namedType[a])
                          /\ createIncompleteStruct(World, a).out.key
                                 \in DOMAIN createIncompleteStruct(World, a).w.smap
        /\ Calls(createAlias(World, a, t, g))

GetAlias ==
    \E t \in fnSet, a \in AliasNames :
        Calls(FunctionTypeGetAlias(World, t, a))

CreateIncompleteStruct ==
    \E n \in StructNames :
        /\ n \in DOMAIN namedType =>
               /\ isStruct(namedType[n])
               /\ namedType[n].key \in DOMAIN structMap
               /\ DataOf(namedType[n]).id \in DOMAIN structMap
        /\ Calls(createIncompleteStruct(World, n))

\* complete() is reached through the non-const pointer createIncompleteStruct
\* returned: a node of structMap that is the struct of its own id.
Completable == {t \in StructRefs(World) :
                   t.map = "struct" /\ t.key \in DOMAIN structMap
                   /\ structMap[t.key].id = t.key}

MemberTypes == {t \in LiveTypes : ~isVoid(t) /\ ~isFunction(t) /\ ~isArray(t)}

Complete ==
    \E g \in Gens, t \in Completable, n \in 0..MaxMembers :
        \E ident \in [1..n -> MemberNames], type \in [1..n -> MemberTypes] :
            /\ Returns(complete(World, t, ident, type, g))
            /\ res' = [op |-> "complete", in |-> <<t, ident, type>>,
                       out |-> complete(World, t, ident, type, g).out, warn |-> {}]
            /\ UNCHANGED <<calls, removed>>

\* The types a registry node, a struct member or a type name refers to.
Referenced ==
    {t.ref : t \in ptrTypeSet \cup arrayTypeSet}
    \cup {t.ret : t \in fnTypeSet \cup fnSet}
    \cup UNION {{t.params[i] : i \in DOMAIN t.params} : t \in fnTypeSet \cup fnSet}
    \cup UNION {{structMap[k].type[i] : i \in DOMAIN structMap[k].type} : k \in DOMAIN structMap}
    \cup UNION {{constStructMap[k].type[i] : i \in DOMAIN constStructMap[k].type} :
                   k \in DOMAIN constStructMap}
    \cup {namedType[n] : n \in DOMAIN namedType}

\* Type::remove is applied to a type nothing else refers to (otherwise the
\* registry would be left holding dangling references): an integer, a pointer
\* or an array.
Remove ==
    \E t \in LiveTypes \ Referenced :
        /\ isInteger(t) \/ isPointer(t) \/ isArray(t)
        /\ Cardinality(removed) < MaxRemoves
        /\ SetWorld(remove(World, t))
        /\ removed' = removed \cup removedKey(t)
        /\ UNCHANGED <<calls, res>>

\* Constructors, const flavors and aliases.
NextCore ==
    \/ GetVoid \/ GetBool \/ GetSignedInteger \/ GetUnsignedInteger
    \/ GetPointer \/ GetNullPointer \/ GetArray \/ CreateFunctionType
    \/ GetConst \/ GetConstRemoved \/ CreateAlias \/ GetAlias

NextTypes == NextCore \/ CreateIncompleteStruct \/ Complete

\* The registry with its structs, without Type::remove.
SpecTypes == Init /\ [][NextTypes]_vars

NextRegistry == NextCore \/ GetFunction \/ Remove

\* The registry of integers, pointers, arrays and functions with Type::remove.
SpecRegistry == Init /\ [][NextRegistry]_vars

\* ---- the type algebra applied to a populated registry -----------------------
EmptyWorld == [int |-> {}, ptr |-> {}, arr |-> {}, ofn |-> {}, fn |-> {},
               smap |-> EmptyMap, cmap |-> EmptyMap, sid |-> 0, named |-> EmptyMap]

\* The registry after a program has declared integers of two widths, their
\* const flavors, pointers, arrays, a struct, a function type and an alias:
\* the nodes the constructors have inserted, one per key.
tBool == IntNode(1, FALSE, FALSE, "")
tI8 == IntNode(8, TRUE, FALSE, "")
tU8 == IntNode(8, FALSE, FALSE, "")
tU16 == IntNode(16, FALSE, FALSE, "")
tConstI8 == IntNode(8, TRUE, TRUE, "")
tAliasI8 == IntNode(8, TRUE, FALSE, "A")
tFloat == FloatNode("single", FALSE)
tDouble == FloatNode("double", FALSE)
tFn == FunctionTypeNode(VoidNode, <<tI8>>, FALSE, FALSE, "")
tConstFn == FunctionTypeNode(VoidNode, <<tI8>>, FALSE, TRUE, "")

AlgebraWorld ==
    [int |-> {VoidNode, tBool, tI8, tU8, tU16, tConstI8, tAliasI8,
              IntNode(1, FALSE, TRUE, ""), IntNode(8, FALSE, TRUE, ""),
              IntNode(16, FALSE, TRUE, "")},
     ptr |-> {PtrNode(tI8, FALSE, FALSE, ""), PtrNode(tConstI8, FALSE, FALSE, ""),
              PtrNode(VoidNode, FALSE, FALSE, ""), PtrNode(tU16, FALSE, FALSE, ""),
              PtrNode(tI8, FALSE, TRUE, ""), PtrNode(Nil, TRUE, FALSE, ""),
              PtrNode(tFn, FALSE, FALSE, ""), PtrNode(tConstFn, FALSE, FALSE, "")},
     arr |-> {ArrayNode(tI8, 2, ""), ArrayNode(tI8, 3, ""),
              ArrayNode(tConstI8, 2, ""), ArrayNode(tU16, 2, "")},
     ofn |-> {},
     fn |-> {tFn, tConstFn},
     smap |-> MapPut(EmptyMap, 0, NewStructData(0, "S")),
     cmap |-> MapPut(EmptyMap, 0, [NewStructData(0, "S") EXCEPT !.constFlag = TRUE]),
     sid |-> 1,
     named |-> MapPut(EmptyMap, "S", StructRef("struct", 0))]

\* The two types a call is about to be applied to are drawn from the registry.
InitAlgebra ==
    /\ removed = {}
    /\ intTypeSet = AlgebraWorld.int
    /\ ptrTypeSet = AlgebraWorld.ptr
    /\ arrayTypeSet = AlgebraWorld.arr
    /\ fnTypeSet = AlgebraWorld.ofn
    /\ fnSet = AlgebraWorld.fn
    /\ structMap = AlgebraWorld.smap
    /\ constStructMap = AlgebraWorld.cmap
    /\ structId = AlgebraWorld.sid
    /\ namedType = AlgebraWorld.named
    /\ \E a, b \in WorldTypes(AlgebraWorld) \cup {tFloat, tDouble} :
           res = [op |-> "none", in |-> <<a, b>>, out |-> Nil, warn |-> {}]
    /\ calls = {}

Applies(op, r, warn) ==
    /\ res.op = "none"
    /\ SetWorld(r.w)
    /\ res' = [res EXCEPT !.op = op, !.out = r.out, !.warn = warn]
    /\ UNCHANGED <<calls, removed>>

Common == Applies("common", common(World, res.in[1], res.in[2], 0), {})

Convert == Applies("convert", convert(World, res.in[1], res.in[2], 0), {})

ExplicitCast ==
    Applies("explicitCast", explicitCast(World, res.in[1], res.in[2], 0), {})

GetTypeConversion ==
    \E r \in {getTypeConversion(World, res.in[1], res.in[2], 0)} :
        Applies("getTypeConversion", r, r.warn)

NextAlgebra == Common \/ Convert \/ ExplicitCast \/ GetTypeConversion

\* common, convert, explicitCast and getTypeConversion over a populated registry.
SpecAlgebra == InitAlgebra /\ [][NextAlgebra]_vars

\* ---- promotion (src/expr/promotion.cpp) -------------------------------------
\* error::fatal(): std::exit(1); the call returns nothing.
Fatal == [kind |-> "fatal"]

AssignKinds == {"ASSIGN", "ADD_ASSIGN", "SUB_ASSIGN", "MUL_ASSIGN", "DIV_ASSIGN",
                "MOD_ASSIGN"}
ArithmeticKinds == {"ADD", "SUB", "MUL", "DIV", "MOD"}
CompareKinds == {"EQUAL", "NOT_EQUAL", "GREATER", "GREATER_EQUAL", "LESS",
                 "LESS_EQUAL"}
LogicalKinds == {"LOGICAL_AND", "LOGICAL_OR"}
BinaryKinds == AssignKinds \cup ArithmeticKinds \cup CompareKinds
               \cup LogicalKinds \cup {"INDEX"}
IncDecKinds == {"PREFIX_INC", "POSTFIX_INC", "PREFIX_DEC", "POSTFIX_DEC"}
UnaryKinds == IncDecKinds \cup {"ADDRESS", "ASTERISK_DEREF", "ARROW_DEREF",
                                "LOGICAL_NOT", "MINUS"}

\* An operand: its type and what isLValue() and hasAddress() answer.
Operand(type, lvalue, addr) ==
    [type |-> type, lvalue |-> lvalue, addr |-> addr, cast |-> FALSE]

\* ImplicitCast::create: the child itself when it has the type demanded, else
\* a cast node of that type (a cast is no lvalue and has no address).
ImplicitCastCreate(expr, toType) ==
    IF expr.type = toType THEN expr
    ELSE [type |-> toType, lvalue |-> FALSE, addr |-> FALSE, cast |-> TRUE]

BinaryResult(W, left, right, type) ==
    [w |-> W, left |-> left, right |-> right, type |-> type]

binaryErr(W, kind, left, right, loc) ==
    BinaryResult(W, left, right, IF loc THEN Fatal ELSE Nil)

\* The tail of binaryInt and binaryPtr: error without all three types, else
\* both operands are cast.
binaryCast(W, kind, left, right, loc, type, newLeftType, newRightType) ==
    IF type = Nil \/ newLeftType = Nil \/ newRightType = Nil
    THEN binaryErr(W, kind, left, right, loc)
    ELSE BinaryResult(W, ImplicitCastCreate(left, newLeftType),
                      ImplicitCastCreate(right, newRightType), type)

\* binaryInt with the left operand's type in place of the common type.
binaryIntLeftType(W, kind, left, right, loc) ==
    LET bool == getBool(W, 0) IN
    IF kind \in AssignKinds
    THEN IF hasConstFlag(left.type) \/ ~left.lvalue
         THEN binaryErr(W, kind, left, right, loc)
         ELSE binaryCast(W, kind, left, right, loc, left.type, left.type, left.type)
    ELSE IF kind \in ArithmeticKinds
    THEN binaryCast(W, kind, left, right, loc, left.type, left.type, left.type)
    ELSE IF kind \in CompareKinds
    THEN binaryCast(bool.w, kind, left, right, loc, bool.out, left.type, left.type)
    ELSE IF kind \in LogicalKinds
    THEN binaryCast(bool.w, kind, left, right, loc, bool.out, bool.out, bool.out)
    ELSE binaryErr(W, kind, left, right, loc)

\* binaryInt after "auto commonType = Type::common(left->type, right->type)";
\* bool is IntegerType::createBool(), looked up where a case uses it.
binaryIntCommon(commonType, bool, kind, left, right, loc) ==
    IF kind \in AssignKinds
    THEN IF hasConstFlag(left.type) \/ ~left.lvalue
         THEN binaryErr(commonType.w, kind, left, right, loc)
         ELSE binaryCast(commonType.w, kind, left, right, loc,
                         left.type, left.type, left.type)
    ELSE IF kind \in ArithmeticKinds
    THEN binaryCast(commonType.w, kind, left, right, loc,
                    commonType.out, commonType.out, commonType.out)
    ELSE IF kind \in CompareKinds
    THEN binaryCast(bool.w, kind, left, right, loc,
                    bool.out, commonType.out, commonType.out)
    ELSE IF kind \in LogicalKinds
    THEN binaryCast(bool.w, kind, left, right, loc, bool.out, bool.out, bool.out)
    ELSE binaryErr(commonType.w, kind, left, right, loc)

binaryInt(W, kind, left, right, loc) ==
    Val({binaryIntCommon(commonType, getBool(commonType.w, 0),
                         kind, left, right, loc)
         : commonType \in {common(W, left.type, right.type, 0)}})

\* binaryPtr, ASSIGN: c is Type::convert(right->type, left->type).
binaryPtrAssign(c, kind, left, right, loc) ==
    IF c.out = Abort THEN BinaryResult(c.w, left, right, Abort)
    ELSE binaryCast(c.w, kind, left, right, loc, left.type, left.type, c.out)

binaryPtr(W, kind, left0, right0, loc) ==
    LET swap == kind = "ADD" /\ ~isPointer(left0.type)
        left == IF swap THEN right0 ELSE left0
        right == IF swap THEN left0 ELSE right0
        Err(W1) == binaryErr(W1, kind, left, right, loc)
        Cast(W1, type, l, r) == binaryCast(W1, kind, left, right, loc, type, l, r)
    IN CASE kind = "ASSIGN" ->
              IF hasConstFlag(left.type) \/ ~left.lvalue THEN Err(W)
              ELSE binaryPtrAssign(convert(W, right.type, left.type, 0),
                                   kind, left, right, loc)
         [] kind = "INDEX" ->
              IF ~isInteger(right.type) THEN BinaryResult(W, left, right, Fatal)
              ELSE IF ~isNullPointer(left.type)
              THEN LET size == getUnsignedInteger(W, 64, 0) IN
                   BinaryResult(size.w, left, ImplicitCastCreate(right, size.out),
                                left.type.ref)
              ELSE BinaryResult(W, left, right, Fatal)
         [] kind = "ADD_ASSIGN" ->
              IF isInteger(right.type) /\ left.lvalue
              THEN Cast(W, left.type, left.type, right.type)
              ELSE Err(W)
         [] kind = "SUB_ASSIGN" ->
              IF isPointer(right.type) /\ left.lvalue
              THEN LET i64 == getSignedInteger(W, 64, 0) IN
                   Cast(i64.w, i64.out, left.type, right.type)
              ELSE Err(W)
         [] kind = "ADD" ->
              IF isInteger(right.type) THEN Cast(W, left.type, left.type, right.type)
              ELSE Err(W)
         [] kind = "SUB" ->
              IF isPointer(right.type)
              THEN LET i64 == getSignedInteger(W, 64, 0) IN
                   Cast(i64.w, i64.out, left.type, right.type)
              ELSE Err(W)
         [] kind \in CompareKinds ->
              LET bool == getBool(W, 0) IN
              Cast(bool.w, bool.out, left.type, right.type)
         [] kind \in LogicalKinds ->
              LET bool == getBool(W, 0) IN
              Cast(bool.w, bool.out, bool.out, bool.out)
         [] OTHER -> Err(W)

binaryStruct(W, kind, left, right, loc) ==
    IF kind = "ASSIGN" /\ ~hasConstFlag(left.type) /\ left.lvalue
    THEN BinaryResult(W, left, ImplicitCastCreate(right, left.type), left.type)
    ELSE binaryErr(W, kind, left, right, loc)

\* An array operand decays to a pointer to its element.
decay(W, expr) ==
    IF isArray(expr.type)
    THEN LET p == getPointer(W, expr.type.ref, 0) IN
         [w |-> p.w, expr |-> ImplicitCastCreate(expr, p.out)]
    ELSE [w |-> W, expr |-> expr]

RECURSIVE binary(_, _, _, _, _)
binaryArray(W, kind, left, right, loc) ==
    CASE kind = "INDEX" ->
           IF ~isInteger(right.type) THEN BinaryResult(W, left, right, Fatal)
           ELSE LET size == getUnsignedInteger(W, 64, 0) IN
                BinaryResult(size.w, left, ImplicitCastCreate(right, size.out),
                             left.type.ref)
      [] kind = "ASSIGN" ->
           IF isPointer(left.type) /\ isArray(right.type)
           THEN LET r == decay(W, right) IN binary(r.w, kind, left, r.expr, loc)
           ELSE IF ~isArray(left.type) \/ ~isArray(right.type)
                   \/ hasConstFlag(left.type) \/ ~left.lvalue
           THEN binaryErr(W, kind, left, right, loc)
           ELSE BinaryResult(W, left, ImplicitCastCreate(right, left.type), left.type)
      [] OTHER ->
           LET l == decay(W, left)
               r == decay(l.w, right)
           IN binary(r.w, kind, l.expr, r.expr, loc)

binary(W, kind, left, right, loc) ==
    IF isStruct(left.type) \/ isStruct(right.type)
    THEN binaryStruct(W, kind, left, right, loc)
    ELSE IF isArray(left.type) \/ isArray(right.type)
    THEN binaryArray(W, kind, left, right, loc)
    ELSE IF isPointer(left.type) \/ isPointer(right.type)
    THEN binaryPtr(W, kind, left, right, loc)
    ELSE IF isInteger(left.type) /\ isInteger(right.type)
    THEN binaryInt(W, kind, left, right, loc)
    ELSE binaryErr(W, kind, left, right, loc)

UnaryResult(W, child, type) == [w |-> W, child |-> child, type |-> type]

unaryErr(W, kind, child, loc) == UnaryResult(W, child, IF loc THEN Fatal ELSE Nil)

unary(W, kind, child, loc) ==
    LET Ok(W1, type, newChildType) ==
            UnaryResult(W1, ImplicitCastCreate(child, newChildType), type)
        Err == unaryErr(W, kind, child, loc)
    IN CASE kind = "ADDRESS" ->
              IF child.addr
              THEN LET p == getPointer(W, child.type, 0) IN Ok(p.w, p.out, child.type)
              ELSE Err
         [] kind \in {"ASTERISK_DEREF", "ARROW_DEREF"} ->
              IF isPointer(child.type) /\ ~isNullPointer(child.type)
              THEN Ok(W, child.type.ref, child.type)
              ELSE Err
         [] kind \in IncDecKinds ->
              IF ~hasConstFlag(child.type) /\ child.lvalue
                 /\ (isInteger(child.type) \/ isPointer(child.type))
              THEN Ok(W, child.type, child.type)
              ELSE Err
         [] kind = "LOGICAL_NOT" ->
              IF isInteger(child.type) THEN Ok(W, child.type, child.type)
              ELSE IF isPointer(child.type)
              THEN LET bool == getBool(W, 0) IN Ok(bool.w, bool.out, child.type)
              ELSE Err
         [] kind = "MINUS" ->
              IF isInteger(child.type) THEN Ok(W, child.type, child.type)
              ELSE Err
         [] OTHER -> Err

\* ---- promotion::call ---------------------------------------------------------
CallResult(W, fn, arg, type) == [w |-> W, fn |-> fn, arg |-> arg, type |-> type]

\* The argument loop from position i on: an argument that has a parameter is
\* cast to the parameter's type; an array passed as varg is cast to a pointer
\* to its element; any other varg is left as it is.
RECURSIVE castArgs(_, _, _, _)

\* The argument loop with an array passed as varg left as it is.
castVargKept(p, arg, paramType, i) == castArgs(p.w, arg, paramType, i + 1)

\* "auto argType = PointerType::create(arg[i]->type->refType()); arg[i] = ..."
castVarg(p, arg, paramType, i) ==
    castArgs(p.w, [arg EXCEPT ![i] = ImplicitCastCreate(arg[i], p.out)],
             paramType, i + 1)

castArgs(W, arg, paramType, i) ==
    IF i > Len(arg) THEN [w |-> W, arg |-> arg]
    ELSE IF i <= Len(paramType)
    THEN castArgs(W, [arg EXCEPT ![i] = ImplicitCastCreate(arg[i], paramType[i])],
                  paramType, i + 1)
    ELSE IF isArray(arg[i].type)
    THEN castVarg(getPointer(W, arg[i].type.ref, 0), arg, paramType, i)
    ELSE castArgs(W, arg, paramType, i + 1)

\* promotion::call after the argument loop (a): the return type is returned.
callCast(a, fn) == CallResult(a.w, fn, a.arg, fn.type.ret)

\* promotion::call.  The two argument count checks end the process when a
\* location is given and do nothing else.
call(W, fn, arg, loc) ==
    IF ~isFunction(fn.type)
    THEN CallResult(W, fn, arg, IF loc THEN Fatal ELSE Nil)
    ELSE IF loc /\ Len(arg) < Len(fn.type.params)
    THEN CallResult(W, fn, arg, Fatal)
    ELSE IF loc /\ ~fn.type.varg /\ Len(arg) > Len(fn.type.params)
    THEN CallResult(W, fn, arg, Fatal)
    ELSE callCast(castArgs(W, arg, fn.type.params, 1), fn)

\* ---- promotion applied to operands -------------------------------------------
PromotionTypes ==
    {tBool, tI8, tU16, tConstI8, PtrNode(tI8, FALSE, FALSE, ""),
     PtrNode(tI8, FALSE, TRUE, ""), PtrNode(tU16, FALSE, FALSE, ""),
     PtrNode(Nil, TRUE, FALSE, ""), ArrayNode(tI8, 2, ""),
     StructRef("struct", 0), StructRef("const", 0), tFn, tFloat}

\* An lvalue has an address; an expression with an address need not be one.
Operands ==
    {Operand(t, f[1], f[2]) :
        t \in PromotionTypes, f \in {<<FALSE, FALSE>>, <<FALSE, TRUE>>, <<TRUE, TRUE>>}}

\* The operator, its operands and whether a location is passed are drawn.
InitPromotion ==
    /\ removed = {}
    /\ intTypeSet = AlgebraWorld.int
    /\ ptrTypeSet = AlgebraWorld.ptr
    /\ arrayTypeSet = AlgebraWorld.arr
    /\ fnTypeSet = AlgebraWorld.ofn
    /\ fnSet = AlgebraWorld.fn
    /\ structMap = AlgebraWorld.smap
    /\ constStructMap = AlgebraWorld.cmap
    /\ structId = AlgebraWorld.sid
    /\ namedType = AlgebraWorld.named
    /\ \E kind \in BinaryKinds \cup UnaryKinds, left, right \in Operands,
          loc \in BOOLEAN :
           /\ kind \in UnaryKinds => right = left
           /\ res = [op |-> "none", in |-> <<kind, left, right, loc>>,
                     out |-> Nil, warn |-> {}]
    /\ calls = {}

Binary ==
    /\ res.op = "none"
    /\ res.in[1] \in BinaryKinds
    /\ \E r \in {binary(World, res.in[1], res.in[2], res.in[3], res.in[4])} :
           /\ SetWorld(r.w)
           /\ res' = [res EXCEPT !.op = "binary",
                                 !.out = [left |-> r.left, right |-> r.right,
                                          type |-> r.type]]
    /\ UNCHANGED <<calls, removed>>

Unary ==
    /\ res.op = "none"
    /\ res.in[1] \in UnaryKinds
    /\ \E r \in {unary(World, res.in[1], res.in[2], res.in[4])} :
           /\ SetWorld(r.w)
           /\ res' = [res EXCEPT !.op = "unary",
                                 !.out = [child |-> r.child, type |-> r.type]]
    /\ UNCHANGED <<calls, removed>>

NextPromotion == Binary \/ Unary

\* binary and unary promotion over drawn operands.
SpecPromotion == InitPromotion /\ [][NextPromotion]_vars

\* ---- promotion::call applied to callees and argument lists --------------------
MaxArgs == 3

tFnVarg == FunctionTypeNode(tU16, <<tI8>>, TRUE, FALSE, "")
tFnNoParam == FunctionTypeNode(tI8, <<>>, FALSE, FALSE, "")

\* The registry of the type algebra with two more function types.
CallWorld == [AlgebraWorld EXCEPT !.fn = @ \cup {tFnVarg, tFnNoParam}]

CalleeTypes == {tFn, tFnVarg, tFnNoParam, tI8, PtrNode(tI8, FALSE, FALSE, "")}

ArgTypes == {tI8, tU16, ArrayNode(tI8, 2, ""), PtrNode(tI8, FALSE, FALSE, "")}

ArgLists ==
    UNION {[1..n -> {Operand(t, FALSE, FALSE) : t \in ArgTypes}] : n \in 0..MaxArgs}

\* The callee, the arguments and whether a location is passed are drawn.
InitCall ==
    /\ removed = {}
    /\ intTypeSet = CallWorld.int
    /\ ptrTypeSet = CallWorld.ptr
    /\ arrayTypeSet = CallWorld.arr
    /\ fnTypeSet = CallWorld.ofn
    /\ fnSet = CallWorld.fn
    /\ structMap = CallWorld.smap
    /\ constStructMap = CallWorld.cmap
    /\ structId = CallWorld.sid
    /\ namedType = CallWorld.named
    /\ \E t \in CalleeTypes, arg \in ArgLists, loc \in BOOLEAN :
           res = [op |-> "none", in |-> <<Operand(t, FALSE, TRUE), arg, loc>>,
                  out |-> Nil, warn |-> {}]
    /\ calls = {}

Call ==
    /\ res.op = "none"
    /\ \E r \in {call(World, res.in[1], res.in[2], res.in[3])} :
           /\ SetWorld(r.w)
           /\ res' = [res EXCEPT !.op = "call",
                                 !.out = [fn |-> r.fn, arg |-> r.arg, type |-> r.type]]
    /\ UNCHANGED <<calls, removed>>

NextCall == Call

\* call promotion over drawn callees and argument lists.
SpecCall == InitCall /\ [][NextCall]_vars

\* ---- the expression parser (src/parser/parseexpr.cpp) -------------------------
AssignTokens == {"EQUAL", "PLUS_EQUAL", "MINUS_EQUAL", "ASTERISK_EQUAL",
                 "SLASH_EQUAL", "PERCENT_EQUAL"}

BinaryTokens == {"ASTERISK", "SLASH", "PERCENT", "PLUS", "MINUS", "GREATER",
                 "GREATER_EQUAL", "LESS", "LESS_EQUAL", "EQUAL2", "NOT_EQUAL",
                 "AND2", "OR2"}

getBinaryExprKind(kind) ==
    CASE kind = "ASTERISK" -> "MUL"
      [] kind = "SLASH" -> "DIV"
      [] kind = "PERCENT" -> "MOD"
      [] kind \in {"PLUS", "PLUS2"} -> "ADD"
      [] kind \in {"MINUS", "MINUS2"} -> "SUB"
      [] kind = "EQUAL" -> "ASSIGN"
      [] kind = "PLUS_EQUAL" -> "ADD_ASSIGN"
      [] kind = "MINUS_EQUAL" -> "SUB_ASSIGN"
      [] kind = "ASTERISK_EQUAL" -> "MUL_ASSIGN"
      [] kind = "SLASH_EQUAL" -> "DIV_ASSIGN"
      [] kind = "PERCENT_EQUAL" -> "MOD_ASSIGN"
      [] kind = "EQUAL2" -> "EQUAL"
      [] kind = "NOT_EQUAL" -> "NOT_EQUAL"
      [] kind = "LESS" -> "LESS"
      [] kind = "LESS_EQUAL" -> "LESS_EQUAL"
      [] kind = "GREATER" -> "GREATER"
      [] kind = "GREATER_EQUAL" -> "GREATER_EQUAL"
      [] kind = "AND2" -> "LOGICAL_AND"
      [] kind = "OR2" -> "LOGICAL_OR"
      [] OTHER -> Abort

tokenKindPrec(kind) ==
    CASE kind \in {"ASTERISK", "SLASH", "PERCENT"} -> 13
      [] kind \in {"PLUS", "MINUS"} -> 11
      [] kind \in {"GREATER", "GREATER_EQUAL", "LESS", "LESS_EQUAL"} -> 10
      [] kind \in {"EQUAL2", "NOT_EQUAL"} -> 9
      [] kind = "AND2" -> 5
      [] kind = "OR2" -> 4
      [] OTHER -> 0

\* The current token when pos tokens of toks are left behind; past the last
\* token the lexer delivers the end of input.
TokenAt(toks, pos) == IF pos <= Len(toks) THEN toks[pos] ELSE "EOI"

\* What a parse function leaves: the registry, the expression (Nil for
\* nullptr, Fatal or Abort when error::fatal() or an assert ended the process)
\* and the position of the current token.
Parsed(W, expr, pos) == [w |-> W, expr |-> expr, pos |-> pos]

Ended(r) == r.expr \in {Fatal, Abort}

\* An expression: its tree (operator and operand trees, a primary named by
\* the position of its token) and what promotion asks of it.
Identifier(pos) ==
    [tree |-> [op |-> "IDENTIFIER", pos |-> pos], opnd |-> Operand(tI8, TRUE, TRUE)]

\* new BinaryExpr{kind, left, right, type, loc}: no lvalue (kind is not MEMBER)
BinaryExprNew(promotion, kind, left, right) ==
    IF promotion.type \in {Fatal, Abort} THEN Parsed(promotion.w, promotion.type, 0)
    ELSE Parsed(promotion.w,
                [tree |-> [op |-> kind, left |-> left.tree, right |-> right.tree],
                 opnd |-> Operand(promotion.type, FALSE, FALSE)], 0)

\* BinaryExpr::create: promotion::binary(kind, left, right, &loc), then the node
BinaryExprCreate(W, kind, left, right) ==
    BinaryExprNew(binary(W, kind, left.opnd, right.opnd, TRUE), kind, left, right)

\* IntegerLiteral::create(tok.val, 10, ty, tok.loc) without a suffix: an
\* integer value, no lvalue, no address.
DecimalLiteral(pos) ==
    [tree |-> [op |-> "DECIMAL_LITERAL", pos |-> pos], opnd |-> Operand(tU16, FALSE, FALSE)]

PrimaryTokens == {"IDENTIFIER", "DECIMAL_LITERAL"}

\* parsePrimary: an identifier that names a variable, or a decimal literal
parsePrimary(W, toks, pos) ==
    IF TokenAt(toks, pos) = "IDENTIFIER" THEN Parsed(W, Identifier(pos), pos + 1)
    ELSE IF TokenAt(toks, pos) = "DECIMAL_LITERAL"
    THEN Parsed(W, DecimalLiteral(pos), pos + 1)
    ELSE Parsed(W, Nil, pos)

RECURSIVE parseBinary(_, _, _, _)
RECURSIVE binaryLoop(_, _, _, _, _, _)

\* parseBinary, "expr = BinaryExpr::create(op, expr, right, opLoc)" and on
\* with the while loop; c is what create left, pos the current token.
binaryCreated(c, toks, pos, p, prec) ==
    IF Ended(c) THEN Parsed(c.w, c.expr, pos)
    ELSE binaryLoop(c.w, toks, c.expr, pos, p, prec)

\* parseBinary after "auto right = parseBinary(p + 1)"; op is the operator
\* token consumed before.
binaryRight(right, toks, expr, op, p, prec) ==
    IF Ended(right) THEN right
    ELSE IF right.expr = Nil THEN Parsed(right.w, Fatal, right.pos)
    ELSE binaryCreated(BinaryExprCreate(right.w, getBinaryExprKind(op), expr,
                                        right.expr),
                       toks, right.pos, p, prec)

\* The loop with the right operand parsed at the operator's own level.
binaryLoopSameLevel(W, toks, expr, pos, p, prec) ==
    IF p < prec THEN Parsed(W, expr, pos)
    ELSE IF tokenKindPrec(TokenAt(toks, pos)) = p
    THEN binaryRight(parseBinary(W, toks, pos + 1, p), toks, expr,
                     TokenAt(toks, pos), p, prec)
    ELSE binaryLoop(W, toks, expr, pos, p - 1, prec)

\* "for (int p = tokenKindPrec(token.kind); p >= prec; --p)
\*      while (tokenKindPrec(token.kind) == p) { ... }" at level p
binaryLoop(W, toks, expr, pos, p, prec) ==
    IF p < prec THEN Parsed(W, expr, pos)
    ELSE IF tokenKindPrec(TokenAt(toks, pos)) = p
    THEN binaryRight(parseBinary(W, toks, pos + 1, p + 1), toks, expr,
                     TokenAt(toks, pos), p, prec)
    ELSE binaryLoop(W, toks, expr, pos, p - 1, prec)

\* parseBinary after "auto expr = parsePrimary()"
binaryPrimary(e, toks, prec) ==
    IF e.expr = Nil THEN e
    ELSE binaryLoop(e.w, toks, e.expr, e.pos,
                    tokenKindPrec(TokenAt(toks, e.pos)), prec)

parseBinary(W, toks, pos, prec) ==
    binaryPrimary(parsePrimary(W, toks, pos), toks, prec)

RECURSIVE parseAssignment(_, _, _)
RECURSIVE assignLoop(_, _, _, _)

\* parseAssignment, "expr = BinaryExpr::create(...)" and on with the while loop
assignCreated(c, toks, pos) ==
    IF Ended(c) THEN Parsed(c.w, c.expr, pos)
    ELSE assignLoop(c.w, toks, c.expr, pos)

\* parseAssignment after "auto right = parseAssignment()"
assignRight(right, toks, expr, op) ==
    IF Ended(right) THEN right
    ELSE IF right.expr = Nil THEN Parsed(right.w, Fatal, right.pos)
    ELSE assignCreated(BinaryExprCreate(right.w, getBinaryExprKind(op), expr,
                                        right.expr),
                       toks, right.pos)

\* "while (token.kind == TokenKind::EQUAL || ...) { ... }"
assignLoop(W, toks, expr, pos) ==
    IF TokenAt(toks, pos) \in AssignTokens
    THEN assignRight(parseAssignment(W, toks, pos + 1), toks, expr,
                     TokenAt(toks, pos))
    ELSE Parsed(W, expr, pos)

\* parseAssignment after "auto expr = parseBinary(1)"
assignBinary(e, toks) ==
    IF Ended(e) \/ e.expr = Nil THEN e
    ELSE assignLoop(e.w, toks, e.expr, e.pos)

parseAssignment(W, toks, pos) == assignBinary(parseBinary(W, toks, pos, 1), toks)

parseExpression(W, toks) == parseAssignment(W, toks, 1)

\* ---- the parser applied to token sequences -----------------------------------
MaxPrimaries == 4

\* primary (operator primary)*: primaries separated by binary and assignment
\* operators.
RECURSIVE TokenSeqs(_)
TokenSeqs(n) ==
    IF n = 1 THEN {<<p>> : p \in PrimaryTokens}
    ELSE {t \o <<op, p>> :
             t \in TokenSeqs(n - 1), op \in BinaryTokens \cup AssignTokens,
             p \in PrimaryTokens}

\* The token sequence is drawn; the variables it names are declared.
InitParse ==
    /\ removed = {}
    /\ intTypeSet = AlgebraWorld.int
    /\ ptrTypeSet = AlgebraWorld.ptr
    /\ arrayTypeSet = AlgebraWorld.arr
    /\ fnTypeSet = AlgebraWorld.ofn
    /\ fnSet = AlgebraWorld.fn
    /\ structMap = AlgebraWorld.smap
    /\ constStructMap = AlgebraWorld.cmap
    /\ structId = AlgebraWorld.sid
    /\ namedType = AlgebraWorld.named
    /\ \E n \in 1..MaxPrimaries : \E toks \in TokenSeqs(n) :
           res = [op |-> "none", in |-> toks, out |-> Nil, warn |-> {}]
    /\ calls = {}

ParseExpression ==
    /\ res.op = "none"
    /\ \E r \in {parseExpression(World, res.in)} :
           /\ SetWorld(r.w)
           /\ res' = [res EXCEPT !.op = "parseExpression",
                                 !.out = [expr |-> r.expr, pos |-> r.pos]]
    /\ UNCHANGED <<calls, removed>>

NextParse == ParseExpression

\* parseExpression over drawn token sequences.
SpecParse == InitParse /\ [][NextParse]_vars

\* ---- conditional jumps: BinaryExpr, CastExpr, ProxyExpr --------------------
\* Expression trees: a comparison of two loaded values (named by id), && and
\* ||, a cast (to bool or to another integer type), a proxy.
Cmp(id) == [kind |-> "CMP", id |-> id]
LogicalAnd(left, right) == [kind |-> "LOGICAL_AND", left |-> left, right |-> right]
LogicalOr(left, right) == [kind |-> "LOGICAL_OR", left |-> left, right |-> right]
Cast(toBool, expr) == [kind |-> "CAST", toBool |-> toBool, expr |-> expr]
Proxy(expr) == [kind |-> "PROXY", expr |-> expr]

\* The labels the caller of condJmp hands in.
trueLabel == 1
falseLabel == 2

\* The code under construction: the instructions emitted, the next fresh
\* label, and whether an assert has ended the process.
Instr(op, a, t, f) == [op |-> op, a |-> a, t |-> t, f |-> f]
NoCode == [code |-> <<>>, next |-> falseLabel + 1, aborted |-> FALSE]

emit(st, i) == IF st.aborted THEN st ELSE [st EXCEPT !.code = Append(@, i)]
aborts(st) == [st EXCEPT !.aborted = TRUE]

\* gen::getLabel: n labels no one has yet (st.next, st.next + 1, ..)
getLabel(st, n) == IF st.aborted THEN st ELSE [st EXCEPT !.next = @ + n]
\* gen::labelDef(l): a new block begins
labelDef(st, l) == emit(st, Instr("label", 0, l, 0))
\* gen::jmp(l) and gen::jmp(cond, t, f)
jmp(st, l) == emit(st, Instr("jmp", 0, l, 0))
jmpCond(st, t, f) == emit(st, Instr("cjmp", 0, t, f))
\* gen::cond(op, left, right) on two loaded values: comparison id is evaluated
condLoaded(st, id) == emit(st, Instr("cond", id, 0, 0))
\* gen::cond(gen::NE, value, zero): the value just computed, as a condition
condNE(st) == emit(st, Instr("ne", 0, 0, 0))
\* gen::loadZero and gen::loadIntConst(v, type)
loadIntConst(st, v) == emit(st, Instr("const", v, 0, 0))
\* gen::cast(value, from, to)
genCast(st) == emit(st, Instr("cast", 0, 0, 0))
\* gen::phi(one, trueLabel, zero, falseLabel, type)
phi(st, t, f) == emit(st, Instr("phi", 0, t, f))

RECURSIVE condJmp(_, _, _, _)
RECURSIVE loadValue(_, _)
RECURSIVE loadConstValue(_, _)

\* CastExpr::loadConstValue and ProxyExpr::loadConstValue hand on to the child;
\* BinaryExpr::loadConstValue is assert(0).
loadConstValue(e, st) ==
    IF st.aborted THEN st
    ELSE IF e.kind = "PROXY" THEN loadConstValue(e.expr, st)
    ELSE IF e.kind = "CAST"
    THEN IF e.toBool THEN condNE(loadConstValue(e.expr, loadIntConst(st, 0)))
         ELSE genCast(loadConstValue(e.expr, st))
    ELSE aborts(st)

\* BinaryExpr::loadValue, case LOGICAL_AND, LOGICAL_OR, after the three
\* gen::getLabel calls: l is trueLabel, l + 1 falseLabel, l + 2 phiLabel.
loadLogical(e, st, l) ==
    phi(labelDef(jmp(loadIntConst(labelDef(jmp(loadIntConst(labelDef(
        condJmp(e, l, l + 1, st), l), 1), l + 2), l + 1), 0), l + 2), l + 2),
        l, l + 1)

\* BinaryExpr::loadValue, CastExpr::loadValue, ProxyExpr::loadValue
loadValue(e, st) ==
    IF st.aborted THEN st
    ELSE IF e.kind = "CMP" THEN condLoaded(st, e.id)
    ELSE IF e.kind \in {"LOGICAL_AND", "LOGICAL_OR"}
    THEN loadLogical(e, getLabel(st, 3), st.next)
    ELSE IF e.kind = "CAST"
    THEN IF e.toBool THEN condNE(loadValue(e.expr, loadIntConst(st, 0)))
         ELSE genCast(loadValue(e.expr, st))
    ELSE loadConstValue(e.expr, st)

\* BinaryExpr::condJmp, case LOGICAL_AND, with both operands evaluated
logicalAndEager(e, T, F, st) ==
    condJmp(e.right, T, F,
            labelDef(condJmp(e.left, st.next, st.next, getLabel(st, 1)), st.next))

\* BinaryExpr::condJmp, case LOGICAL_AND
logicalAnd(e, T, F, st) ==
    condJmp(e.right, T, F,
            labelDef(condJmp(e.left, st.next, F, getLabel(st, 1)), st.next))

\* BinaryExpr::condJmp, case LOGICAL_OR
logicalOr(e, T, F, st) ==
    condJmp(e.right, T, F,
            labelDef(condJmp(e.left, T, st.next, getLabel(st, 1)), st.next))

\* BinaryExpr::condJmp, CastExpr::condJmp, ProxyExpr::condJmp
condJmp(e, T, F, st) ==
    IF st.aborted THEN st
    ELSE IF e.kind = "CMP" THEN jmpCond(condLoaded(st, e.id), T, F)
    ELSE IF e.kind = "LOGICAL_AND" THEN logicalAnd(e, T, F, st)
    ELSE IF e.kind = "LOGICAL_OR" THEN logicalOr(e, T, F, st)
    ELSE IF e.kind = "CAST"
    THEN jmpCond(condNE(loadValue(e, loadIntConst(st, 0))), T, F)
    ELSE condJmp(e.expr, T, F, st)

\* ---- condJmp on drawn trees, and the run of what it emitted ----------------
MaxDepth == 2
MaxLeaves == 2

RECURSIVE Trees(_)
Trees(d) ==
    IF d = 0 THEN {Cmp(i) : i \in 1..MaxLeaves}
    ELSE Trees(d - 1)
         \cup {LogicalAnd(l, r) : l \in Trees(d - 1), r \in Trees(d - 1)}
         \cup {LogicalOr(l, r) : l \in Trees(d - 1), r \in Trees(d - 1)}
         \cup {Cast(b, e) : b \in BOOLEAN, e \in Trees(d - 1)}
         \cup {Proxy(e) : e \in Trees(d - 1)}

\* Where the run of the emitted code stands: the next instruction, the value
\* last computed, the block it is in and the block it came from, the
\* comparisons evaluated so far, and the label it left to (0 while inside).
Entry == [pc |-> 1, value |-> FALSE, block |-> 0, from |-> 0, evaluated |-> <<>>,
          exit |-> 0, fell |-> FALSE]

\* The tree and the outcome of each comparison are drawn.
InitBranch ==
    /\ removed = {}
    /\ intTypeSet = AlgebraWorld.int
    /\ ptrTypeSet = AlgebraWorld.ptr
    /\ arrayTypeSet = AlgebraWorld.arr
    /\ fnTypeSet = AlgebraWorld.ofn
    /\ fnSet = AlgebraWorld.fn
    /\ structMap = AlgebraWorld.smap
    /\ constStructMap = AlgebraWorld.cmap
    /\ structId = AlgebraWorld.sid
    /\ namedType = AlgebraWorld.named
    /\ \E e \in Trees(MaxDepth) : \E v \in [1..MaxLeaves -> BOOLEAN] :
           res = [op |-> "none", in |-> <<e, v>>, out |-> Nil, warn |-> {}]
    /\ calls = {}

\* expr->condJmp(trueLabel, falseLabel)
CondJmp ==
    /\ res.op = "none"
    /\ res' = [res EXCEPT !.op = "condJmp",
                          !.out = [gen |-> condJmp(res.in[1], trueLabel, falseLabel, NoCode),
                                   run |-> Entry]]
    /\ UNCHANGED <<intTypeSet, ptrTypeSet, arrayTypeSet, fnTypeSet, fnSet, structMap,
                   constStructMap, structId, namedType, removed, calls>>

\* Control goes to label l: out of the emitted code, or to the block l begins.
LabelAt(code, l) == CHOOSE k \in 1..Len(code) : code[k].op = "label" /\ code[k].t = l

goto(run, code, l) ==
    IF \E k \in 1..Len(code) : code[k].op = "label" /\ code[k].t = l
    THEN [run EXCEPT !.pc = LabelAt(code, l) + 1, !.from = run.block, !.block = l]
    ELSE [run EXCEPT !.exit = l]

\* One instruction of the emitted code; v is the outcome of each comparison.
execute(run, code, i, v) ==
    IF i.op = "cond"
    THEN [run EXCEPT !.pc = @ + 1, !.value = v[i.a], !.evaluated = Append(@, i.a)]
    ELSE IF i.op = "phi"
    THEN [run EXCEPT !.pc = @ + 1, !.value = (run.from = i.t)]
    ELSE IF i.op = "label"
    THEN [run EXCEPT !.pc = @ + 1, !.from = run.block, !.block = i.t]
    ELSE IF i.op = "jmp" THEN goto(run, code, i.t)
    ELSE IF i.op = "cjmp" THEN goto(run, code, IF run.value THEN i.t ELSE i.f)
    ELSE [run EXCEPT !.pc = @ + 1]

\* The emitted code runs one instruction on; past its last instruction
\* control has fallen through.
Step ==
    /\ res.op = "condJmp"
    /\ ~res.out.gen.aborted
    /\ res.out.run.exit = 0
    /\ ~res.out.run.fell
    /\ res' = [res EXCEPT !.out.run =
                  IF res.out.run.pc > Len(res.out.gen.code)
                  THEN [res.out.run EXCEPT !.fell = TRUE]
                  ELSE execute(res.out.run, res.out.gen.code,
                               res.out.gen.code[res.out.run.pc], res.in[2])]
    /\ UNCHANGED <<intTypeSet, ptrTypeSet, arrayTypeSet, fnTypeSet, fnSet, structMap,
                   constStructMap, structId, namedType, removed, calls>>

NextBranch == CondJmp \/ Step

\* condJmp over drawn trees, followed by the run of the emitted code.
SpecBranch == InitBranch /\ [][NextBranch]_vars

\* ---- expression nodes: BinaryExpr, CastExpr, ProxyExpr ---------------------
\* Identifier and IntegerLiteral are the leaves: a variable has an address and
\* is an lvalue, a const-qualified one has an address only; a literal is a
\* constant without address.
IdentifierNode(type, lvalue) ==
    [node |-> "Identifier", type |-> type, lvalue |-> lvalue]
IntegerLiteralNode(type) == [node |-> "IntegerLiteral", type |-> type]
\* new BinaryExpr{kind, left, right, type, loc}
BinaryExprNode(kind, left, right, type) ==
    [node |-> "BinaryExpr", kind |-> kind, left |-> left, right |-> right, type |-> type]
\* new CastExpr{expr, toType, loc}
CastExprNode(expr, toType) == [node |-> "CastExpr", expr |-> expr, type |-> toType]
\* new ProxyExpr{expr, loc}: Expr{loc, expr->type}
ProxyExprNode(expr) == [node |-> "ProxyExpr", expr |-> expr, type |-> expr.type]

RECURSIVE isLValue(_)
\* BinaryExpr::isLValue, CastExpr::isLValue, ProxyExpr::isLValue
isLValue(e) ==
    IF e.node = "BinaryExpr" THEN e.kind = "MEMBER" /\ isLValue(e.right)
    ELSE IF e.node = "CastExpr" THEN FALSE
    ELSE IF e.node = "ProxyExpr" THEN isLValue(e.expr)
    ELSE e.node = "Identifier" /\ e.lvalue

RECURSIVE hasAddr(_)
\* hasAddr with a cast that has the address of its child.
hasAddrThroughCast(e) ==
    IF e.node = "BinaryExpr" THEN isLValue(e)
    ELSE IF e.node \in {"CastExpr", "ProxyExpr"} THEN hasAddr(e.expr)
    ELSE e.node = "Identifier"

\* BinaryExpr::hasAddr, CastExpr::hasAddr, ProxyExpr::hasAddr
hasAddr(e) ==
    IF e.node = "BinaryExpr" THEN isLValue(e)
    ELSE IF e.node = "CastExpr" THEN FALSE
    ELSE IF e.node = "ProxyExpr" THEN hasAddr(e.expr)
    ELSE e.node = "Identifier"

RECURSIVE isConst(_)
\* BinaryExpr::isIntegerConstExpr (isArithmeticConstExpr is the same)
isIntegerConstExpr(e) ==
    /\ isInteger(e.type)
    /\ isInteger(e.left.type) /\ isConst(e.left)
    /\ isInteger(e.right.type) /\ isConst(e.right)

\* BinaryExpr::isAddressConstant
isAddressConstant(e) == isPointer(e.type) /\ isConst(e.left) /\ isConst(e.right)

\* BinaryExpr::isConst, CastExpr::isConst, ProxyExpr::isConst
isConst(e) ==
    IF e.node = "BinaryExpr"
    THEN IF e.kind \in {"CALL", "ASSIGN"} THEN FALSE
         ELSE isIntegerConstExpr(e) \/ isAddressConstant(e)
    ELSE IF e.node \in {"CastExpr", "ProxyExpr"} THEN isConst(e.expr)
    ELSE e.node = "IntegerLiteral"

\* ---- code generation of the expression nodes -------------------------------
\* What a run of the generator has done: the member functions called, with
\* the node each was called on, the ALU operations emitted, and whether an
\* assert has ended the process.
NoGen == [calls |-> <<>>, alu |-> <<>>, aborted |-> FALSE]
called(g, fn, e) == IF g.aborted THEN g ELSE [g EXCEPT !.calls = Append(@, <<fn, e>>)]
asserted(g, cond) == IF cond THEN g ELSE [g EXCEPT !.aborted = TRUE]
aluInstr(g, op) == IF g.aborted THEN g ELSE [g EXCEPT !.alu = Append(@, op)]

\* getGenAluOp
getGenAluOp(kind, type) ==
    IF kind = "ADD" THEN "ADD"
    ELSE IF kind = "SUB" THEN "SUB"
    ELSE IF kind = "MUL" THEN "SMUL"
    ELSE IF kind = "DIV"
    THEN IF isInteger(type) /\ type.signed THEN "SDIV" ELSE "UDIV"
    ELSE IF isInteger(type) /\ type.signed THEN "SMOD" ELSE "UMOD"

RECURSIVE exprLoadConstValue(_, _)
RECURSIVE exprLoadAddr(_, _)
RECURSIVE exprLoadValue(_, _, _)
RECURSIVE exprCondJmp(_, _, _)

\* loadConstValue as called: BinaryExpr::loadConstValue is assert(0), CastExpr
\* and ProxyExpr hand on to the child, a literal gives its value.
constValueLoaded(e, g) ==
    IF g.aborted THEN g
    ELSE IF e.node \in {"CastExpr", "ProxyExpr"} THEN exprLoadConstValue(e.expr, g)
    ELSE asserted(g, e.node = "IntegerLiteral")

exprLoadConstValue(e, g) == constValueLoaded(e, called(g, "loadConstValue", e))

\* loadAddr as called: BinaryExpr::loadAddr asserts hasAddr() and MEMBER and
\* loads the address of left; CastExpr::loadAddr is assert(0); ProxyExpr hands
\* on to the child.
addrLoaded(e, g) ==
    IF g.aborted THEN g
    ELSE IF e.node = "BinaryExpr"
    THEN IF hasAddr(e) /\ e.kind = "MEMBER" THEN exprLoadAddr(e.left, g)
         ELSE asserted(g, FALSE)
    ELSE IF e.node = "ProxyExpr" THEN exprLoadAddr(e.expr, g)
    ELSE asserted(g, e.node = "Identifier")

exprLoadAddr(e, g) == addrLoaded(e, called(g, "loadAddr", e))

\* left->loadValue() and right->loadValue() as arguments of one call, in the
\* order the build has chosen.
bothLoaded(e, g, leftFirst) ==
    IF leftFirst
    THEN exprLoadValue(e.right, exprLoadValue(e.left, g, leftFirst), leftFirst)
    ELSE exprLoadValue(e.left, exprLoadValue(e.right, g, leftFirst), leftFirst)

\* gen::store(right->loadValue(), left->loadAddr(), type)
stored(e, g, leftFirst) ==
    IF leftFirst THEN exprLoadValue(e.right, exprLoadAddr(e.left, g), leftFirst)
    ELSE exprLoadAddr(e.left, exprLoadValue(e.right, g, leftFirst))

\* BinaryExpr::loadValue
binaryValueLoaded(e, g, leftFirst) ==
    IF e.kind = "MEMBER" THEN exprLoadAddr(e, g)
    ELSE IF e.kind = "ASSIGN" THEN stored(e, g, leftFirst)
    ELSE IF e.kind \in {"ADD", "SUB", "MUL", "DIV", "MOD"}
    THEN IF e.kind = "ADD" /\ isPointer(e.type)
         THEN bothLoaded(e, asserted(g, isPointer(e.left.type) /\ isInteger(e.right.type)),
                         leftFirst)
         ELSE IF e.kind = "SUB" /\ isPointer(e.left.type)
         THEN bothLoaded(e, asserted(g, isPointer(e.right.type) /\ isInteger(e.type)),
                         leftFirst)
         ELSE aluInstr(bothLoaded(e, asserted(g, equals(e.left.type, e.right.type)),
                                  leftFirst),
                       getGenAluOp(e.kind, e.type))
    ELSE IF e.kind \in {"LESS", "LESS_EQUAL", "GREATER", "GREATER_EQUAL", "NOT_EQUAL", "EQUAL"}
    THEN bothLoaded(e, asserted(g, equals(e.left.type, e.right.type)), leftFirst)
    ELSE IF e.kind \in {"LOGICAL_AND", "LOGICAL_OR"}
    THEN exprCondJmp(e, asserted(g, equals(e.left.type, e.right.type)), leftFirst)
    ELSE asserted(g, FALSE)

\* loadValue as called: BinaryExpr::loadValue; CastExpr::loadValue loads the
\* value of the child; ProxyExpr::loadValue calls expr->loadConstValue().
valueLoaded(e, g, leftFirst) ==
    IF g.aborted THEN g
    ELSE IF e.node = "BinaryExpr" THEN binaryValueLoaded(e, g, leftFirst)
    ELSE IF e.node = "CastExpr" THEN exprLoadValue(e.expr, g, leftFirst)
    ELSE IF e.node = "ProxyExpr" THEN exprLoadConstValue(e.expr, g)
    ELSE g

exprLoadValue(e, g, leftFirst) == valueLoaded(e, called(g, "loadValue", e), leftFirst)

\* condJmp as called: BinaryExpr::condJmp; CastExpr::condJmp loads its own
\* value; ProxyExpr::condJmp hands on to the child.
jumped(e, g, leftFirst) ==
    IF g.aborted THEN g
    ELSE IF e.node = "BinaryExpr"
    THEN IF e.kind \in {"LESS", "LESS_EQUAL", "GREATER", "GREATER_EQUAL", "NOT_EQUAL", "EQUAL"}
         THEN bothLoaded(e, asserted(g, equals(e.left.type, e.right.type)), leftFirst)
         ELSE IF e.kind \in {"LOGICAL_AND", "LOGICAL_OR"}
         THEN exprCondJmp(e.right, exprCondJmp(e.left, g, leftFirst), leftFirst)
         ELSE exprLoadValue(e, g, leftFirst)
    ELSE IF e.node = "ProxyExpr" THEN exprCondJmp(e.expr, g, leftFirst)
    ELSE exprLoadValue(e, g, leftFirst)

exprCondJmp(e, g, leftFirst) == jumped(e, called(g, "condJmp", e), leftFirst)

\* ---- the queries and the generator on drawn expression trees ---------------
MaxExprDepth == 2

tS == StructRef("struct", 0)
ExprIntTypes == {tI8, tU8}
ExprLeaves ==
    {IdentifierNode(t, TRUE) : t \in ExprIntTypes \cup {tS}}
    \cup {IdentifierNode(tI8, FALSE)}
    \cup {IntegerLiteralNode(t) : t \in ExprIntTypes}

\* The operand pairs of a binary node of depth d: one operand of depth below
\* d, the other one a leaf.
RECURSIVE ExprTrees(_)
OperandPairs(d) ==
    {<<l, r>> : l \in ExprTrees(d - 1), r \in ExprLeaves}
    \cup {<<l, r>> : l \in ExprLeaves, r \in ExprTrees(d - 1)}

\* The nodes as the create functions leave them: the operands of an
\* arithmetic operator, an assignment or a comparison have one type, the
\* target of an assignment is an lvalue, the result of a comparison is bool,
\* a member access has the member's type.
ExprTrees(d) ==
    IF d = 0 THEN ExprLeaves
    ELSE ExprTrees(d - 1)
         \cup {BinaryExprNode(k, p[1], p[2], p[1].type) :
                  k \in {"MUL", "DIV", "MOD"},
                  p \in {q \in OperandPairs(d) :
                            q[1].type \in ExprIntTypes /\ q[2].type = q[1].type}}
         \cup {BinaryExprNode("ASSIGN", p[1], p[2], p[1].type) :
                  p \in {q \in OperandPairs(d) :
                            /\ q[1].type \in ExprIntTypes /\ q[2].type = q[1].type
                            /\ isLValue(q[1])}}
         \cup {BinaryExprNode(k, p[1], p[2], tBool) :
                  k \in {"LESS", "LOGICAL_AND"},
                  p \in {q \in OperandPairs(d) :
                            q[1].type # tS /\ q[2].type = q[1].type}}
         \cup {BinaryExprNode("MEMBER", l, IdentifierNode(t, lv), t) :
                  l \in {x \in ExprTrees(d - 1) : x.type = tS},
                  t \in ExprIntTypes, lv \in BOOLEAN}
         \cup {CastExprNode(e, t) :
                  e \in {x \in ExprTrees(d - 1) : x.type # tS}, t \in {tBool, tU8}}
         \cup {ProxyExprNode(e) : e \in ExprTrees(d - 1)}

\* The expression is drawn.
InitExpr ==
    /\ removed = {}
    /\ intTypeSet = AlgebraWorld.int
    /\ ptrTypeSet = AlgebraWorld.ptr
    /\ arrayTypeSet = AlgebraWorld.arr
    /\ fnTypeSet = AlgebraWorld.ofn
    /\ fnSet = AlgebraWorld.fn
    /\ structMap = AlgebraWorld.smap
    /\ constStructMap = AlgebraWorld.cmap
    /\ structId = AlgebraWorld.sid
    /\ namedType = AlgebraWorld.named
    /\ \E e \in ExprTrees(MaxExprDepth) :
           res = [op |-> "none", in |-> <<e>>, out |-> Nil, warn |-> {}]
    /\ calls = {}

Generates(op, g) ==
    /\ res.op = "none"
    /\ res' = [res EXCEPT !.op = op, !.out = g]
    /\ UNCHANGED <<intTypeSet, ptrTypeSet, arrayTypeSet, fnTypeSet, fnSet, structMap,
                   constStructMap, structId, namedType, removed, calls>>

\* expr->hasAddr(), expr->isLValue(), expr->isConst()
Queries ==
    Generates("queries", [hasAddr |-> hasAddr(res.in[1]), isLValue |-> isLValue(res.in[1]),
                          isConst |-> isConst(res.in[1])])

\* expr->loadValue(); the build has chosen the order in which the arguments
\* of a call are evaluated.
LoadValue ==
    \E leftFirst \in BOOLEAN :
        Generates("loadValue", exprLoadValue(res.in[1], NoGen, leftFirst))

\* expr->loadAddr(), on an expression that has an address
LoadAddr ==
    /\ hasAddr(res.in[1])
    /\ Generates("loadAddr", exprLoadAddr(res.in[1], NoGen))

\* expr->loadConstValue(), on a constant expression
LoadConstValue ==
    /\ isConst(res.in[1])
    /\ Generates("loadConstValue", exprLoadConstValue(res.in[1], NoGen))

\* expr->condJmp(trueLabel, falseLabel)
CondJmpExpr ==
    \E leftFirst \in BOOLEAN :
        Generates("condJmp", exprCondJmp(res.in[1], NoGen, leftFirst))

NextExpr == Queries \/ LoadValue \/ LoadAddr \/ LoadConstValue \/ CondJmpExpr

\* The queries and the generator over drawn expression trees.
SpecExpr == InitExpr /\ [][NextExpr]_vars

\* ---- the symbol table (Symtab) -----------------------------------------------
\* The stack of scopes, the root scope first and the current scope last; a
\* scope is the set of the identifiers declared in it.
MaxScopes == 3
Idents == {"a", "b"}

RootOnly == <<{}>>

\* Symtab::get(ident, Symtab::CurrentScope), (ident, Symtab::RootScope) and
\* (ident, Symtab::AnyScope): whether an entry is found.
getCurrentScope(scopes, ident) == ident \in scopes[Len(scopes)]
getRootScope(scopes, ident) == ident \in scopes[1]
getAnyScope(scopes, ident) == \E k \in 1..Len(scopes) : ident \in scopes[k]

\* Symtab::addDecl with an identifier of any enclosing scope taken for a
\* duplicate.
addDeclUnlessVisible(scopes, ident) ==
    IF getAnyScope(scopes, ident) THEN [scopes |-> scopes, entry |-> FALSE]
    ELSE [scopes |-> [scopes EXCEPT ![Len(scopes)] = @ \cup {ident}], entry |-> TRUE]

\* Symtab::addDecl: the entry, or none for a duplicate in the current scope.
addDecl(scopes, ident) ==
    IF getCurrentScope(scopes, ident) THEN [scopes |-> scopes, entry |-> FALSE]
    ELSE [scopes |-> [scopes EXCEPT ![Len(scopes)] = @ \cup {ident}], entry |-> TRUE]

\* Symtab::addDeclToRootScope: the entry, or none for a duplicate in the root
\* scope.
addDeclToRootScope(scopes, ident) ==
    IF getRootScope(scopes, ident) THEN [scopes |-> scopes, entry |-> FALSE]
    ELSE [scopes |-> [scopes EXCEPT ![1] = @ \cup {ident}], entry |-> TRUE]

\* Symtab::openScope and Symtab::closeScope
openScope(scopes) == Append(scopes, {})
closeScope(scopes) == SubSeq(scopes, 1, Len(scopes) - 1)

\* The table with the root scope only; closed holds the identifiers of the
\* scopes closed so far.
InitSymtab ==
    /\ removed = {}
    /\ intTypeSet = AlgebraWorld.int
    /\ ptrTypeSet = AlgebraWorld.ptr
    /\ arrayTypeSet = AlgebraWorld.arr
    /\ fnTypeSet = AlgebraWorld.ofn
    /\ fnSet = AlgebraWorld.fn
    /\ structMap = AlgebraWorld.smap
    /\ constStructMap = AlgebraWorld.cmap
    /\ structId = AlgebraWorld.sid
    /\ namedType = AlgebraWorld.named
    /\ res = [op |-> "none", in |-> "", warn |-> {},
              out |-> [scopes |-> RootOnly, closed |-> {}, found |-> FALSE,
                       entry |-> FALSE]]
    /\ calls = {}

SymtabDoes(op, ident, scopes, closed, found, entry) ==
    /\ res' = [op |-> op, in |-> ident, warn |-> {},
               out |-> [scopes |-> scopes, closed |-> closed, found |-> found,
                        entry |-> entry]]
    /\ UNCHANGED <<intTypeSet, ptrTypeSet, arrayTypeSet, fnTypeSet, fnSet, structMap,
                   constStructMap, structId, namedType, removed, calls>>

\* Symtab::openScope()
OpenScope ==
    /\ Len(res.out.scopes) < MaxScopes
    /\ SymtabDoes("openScope", "", openScope(res.out.scopes), res.out.closed, FALSE, FALSE)

\* Symtab::closeScope(), of a scope that was opened
CloseScope ==
    /\ Len(res.out.scopes) > 1
    /\ SymtabDoes("closeScope", "", closeScope(res.out.scopes),
                  res.out.closed \cup res.out.scopes[Len(res.out.scopes)], FALSE, FALSE)

\* add(ident): Symtab::get(ident, Symtab::CurrentScope), then Symtab::addDecl
AddDecl ==
    \E ident \in Idents : \E r \in {addDecl(res.out.scopes, ident)} :
        SymtabDoes("add", ident, r.scopes, res.out.closed,
                   getCurrentScope(res.out.scopes, ident), r.entry)

\* addToRootScope(ident): Symtab::get(ident, Symtab::RootScope), then
\* Symtab::addDeclToRootScope
AddDeclToRootScope ==
    \E ident \in Idents : \E r \in {addDeclToRootScope(res.out.scopes, ident)} :
        SymtabDoes("addToRootScope", ident, r.scopes, res.out.closed,
                   getRootScope(res.out.scopes, ident), r.entry)

NextSymtab == OpenScope \/ CloseScope \/ AddDecl \/ AddDeclToRootScope

\* Any sequence of openScope, closeScope, add and addToRootScope.
SpecSymtab == InitSymtab /\ [][NextSymtab]_vars

\* ---- the statement parser and the scopes it opens (src/src/parser.cpp) ------
\* A statement that parses: its kind, the statements of its block and, for an
\* if with an else, the statements of the else block.
MaxStmts == 1
MaxStmtDepth == 2

Stmt(kind, body, orelse) == [stmt |-> kind, body |-> body, orelse |-> orelse]

RECURSIVE parseStmt(_, _)
RECURSIVE parseStmts(_, _)

\* "while (parseStmt()) {}" over the statements of a block
parseStmts(body, scopes) ==
    IF body = <<>> THEN scopes
    ELSE parseStmts(Tail(body), parseStmt(Head(body), scopes))

\* parseCompoundStmt(openScope)
parseCompoundStmt(body, open, scopes) ==
    IF open THEN closeScope(parseStmts(body, openScope(scopes)))
    ELSE parseStmts(body, scopes)

\* parseIfStmt: the then block, and the else block when there is one
parseIfStmt(s, scopes) ==
    IF s.stmt = "ifelse"
    THEN parseCompoundStmt(s.orelse, TRUE, parseCompoundStmt(s.body, TRUE, scopes))
    ELSE parseCompoundStmt(s.body, TRUE, scopes)

\* parseWhileStmt
parseWhileStmt(s, scopes) == parseCompoundStmt(s.body, TRUE, scopes)

\* parseForStmt: symtab::openScope(), then the loop block in that scope
parseForStmt(s, scopes) == parseCompoundStmt(s.body, FALSE, openScope(scopes))

\* parseStmt; return, expression and local definition statements open no scope
parseStmt(s, scopes) ==
    IF s.stmt = "compound" THEN parseCompoundStmt(s.body, TRUE, scopes)
    ELSE IF s.stmt \in {"if", "ifelse"} THEN parseIfStmt(s, scopes)
    ELSE IF s.stmt = "while" THEN parseWhileStmt(s, scopes)
    ELSE IF s.stmt = "for" THEN parseForStmt(s, scopes)
    ELSE scopes

\* parseFn: parseFnDeclOrType opens the scope of the parameters, a definition
\* parses its block in it, and the scope is closed.
parseFn(definition, body, scopes) ==
    IF definition THEN closeScope(parseCompoundStmt(body, FALSE, openScope(scopes)))
    ELSE closeScope(openScope(scopes))

RECURSIVE Stmts(_)
Blocks(d) == {<<>>} \cup {<<s>> : s \in Stmts(d)}

Stmts(d) ==
    {Stmt(k, <<>>, <<>>) : k \in {"return", "expr", "local"}}
    \cup IF d = 0 THEN {}
         ELSE {Stmt(k, b, <<>>) : k \in {"compound", "if", "while", "for"},
                                   b \in Blocks(d - 1)}
              \cup {Stmt("ifelse", b, e) : b \in Blocks(d - 1), e \in Blocks(d - 1)}

\* A statement is drawn, and whether the function that holds it is defined
\* or declared only.
InitStmt ==
    /\ removed = {}
    /\ intTypeSet = AlgebraWorld.int
    /\ ptrTypeSet = AlgebraWorld.ptr
    /\ arrayTypeSet = AlgebraWorld.arr
    /\ fnTypeSet = AlgebraWorld.ofn
    /\ fnSet = AlgebraWorld.fn
    /\ structMap = AlgebraWorld.smap
    /\ constStructMap = AlgebraWorld.cmap
    /\ structId = AlgebraWorld.sid
    /\ namedType = AlgebraWorld.named
    /\ \E s \in Stmts(MaxStmtDepth) : \E definition \in BOOLEAN :
           res = [op |-> "none", in |-> <<s, definition>>, out |-> Nil, warn |-> {}]
    /\ calls = {}

\* parseStmt() in the block of a function: the scope of the parameters is open
ParseStmt ==
    Generates("parseStmt", [before |-> openScope(RootOnly),
                            after |-> parseStmt(res.in[1], openScope(RootOnly))])

\* parseFn() on a function with the statement as its block
ParseFn ==
    Generates("parseFn", [before |-> RootOnly,
                          after |-> parseFn(res.in[2], <<res.in[1]>>, RootOnly)])

NextStmt == ParseStmt \/ ParseFn

\* The statement parser on drawn statements.
SpecStmt == InitStmt /\ [][NextStmt]_vars

\* ---- the expression parser, call by call (src/parser/parseexpr.cpp) ----------
\* The calls of parseAssignment and parseBinary that have not returned are
\* the frames of a stack; the last frame is the running call.
MaxTokens == 4

\* One token of every class the parser tells apart: the primaries, a binary
\* operator of each of two levels, an assignment operator and a token that
\* is none of these.
StreamTokens == {"IDENTIFIER", "DECIMAL_LITERAL", "ASTERISK", "PLUS", "EQUAL",
                 "SEMICOLON"}

\* What the identifier of the stream names in the symbol table.
Names == {"variable", "type", "undefined"}

\* parsePrimary with the lookup of the identifier: Symtab::type() finds it
\* (assert(0 && "Not implemented")), Symtab::variable() finds it, or neither.
parsePrimaryNamed(W, toks, pos, names) ==
    IF TokenAt(toks, pos) = "IDENTIFIER" /\ names = "type"
    THEN Parsed(W, Abort, pos + 1)
    ELSE IF TokenAt(toks, pos) = "IDENTIFIER" /\ names = "undefined"
    THEN Parsed(W, Fatal, pos + 1)
    ELSE parsePrimary(W, toks, pos)

Frame(fn, pc, prec) ==
    [fn |-> fn, pc |-> pc, prec |-> prec, p |-> 0, expr |-> Nil, op |-> "EOI"]

\* The parser between two steps: the calls, the position of the current
\* token, the value the last call returned and how the process ended.
Machine(W, stack, pos, ret, ended) ==
    [w |-> W, stack |-> stack, pos |-> pos, ret |-> ret, ended |-> ended]

Top(m) == m.stack[Len(m.stack)]
Below(m) == SubSeq(m.stack, 1, Len(m.stack) - 1)

\* the running call goes on at pc with its locals changed
goesOn(m, frame) == [m EXCEPT !.stack = Append(Below(m), frame)]
\* the running call calls fn
callsFrom(m, frame, callee) == [m EXCEPT !.stack = Append(Append(Below(m), frame), callee)]
\* "return expr;"
returns(m, expr) == [m EXCEPT !.stack = Below(m), !.ret = expr]
\* error::fatal() or a failed assert
ends(m, how) == [m EXCEPT !.ended = how]

\* "expr = BinaryExpr::create(...)" in the running call; c is what create left
created(m, c, pc) ==
    IF c.expr = Fatal THEN ends([m EXCEPT !.w = c.w], "fatal")
    ELSE IF c.expr = Abort THEN ends([m EXCEPT !.w = c.w], "abort")
    ELSE goesOn([m EXCEPT !.w = c.w], [Top(m) EXCEPT !.pc = pc, !.expr = c.expr])

\* parseAssignment: "auto expr = parseBinary(1);"
assignmentCallsBinary(m) ==
    callsFrom(m, [Top(m) EXCEPT !.pc = "binaryDone"], Frame("parseBinary", "entry", 1))

\* parseAssignment: "if (!expr) return nullptr;"
assignmentAfterBinary(m) ==
    IF m.ret = Nil THEN returns(m, Nil)
    ELSE goesOn(m, [Top(m) EXCEPT !.pc = "while", !.expr = m.ret])

\* parseAssignment: the test of the while loop, "getToken()" and
\* "auto right = parseAssignment();"
assignmentWhile(m, toks) ==
    IF TokenAt(toks, m.pos) \in AssignTokens
    THEN callsFrom([m EXCEPT !.pos = m.pos + 1],
                   [Top(m) EXCEPT !.pc = "rightDone", !.op = TokenAt(toks, m.pos)],
                   Frame("parseAssignment", "entry", 0))
    ELSE returns(m, Top(m).expr)

\* parseAssignment and parseBinary: "if (!right) error::fatal();" and
\* "expr = BinaryExpr::create(...)"
afterRight(m, pc) ==
    IF m.ret = Nil THEN ends(m, "fatal")
    ELSE created(m, BinaryExprCreate(m.w, getBinaryExprKind(Top(m).op), Top(m).expr,
                                     m.ret), pc)

\* parseBinary: "auto expr = parsePrimary(); if (!expr) return nullptr;" and
\* "int p = tokenKindPrec(token.kind)"; r is what parsePrimary left
binaryAfterPrimary(m, r, toks) ==
    IF r.expr = Fatal THEN ends([m EXCEPT !.pos = r.pos], "fatal")
    ELSE IF r.expr = Abort THEN ends([m EXCEPT !.pos = r.pos], "abort")
    ELSE IF r.expr = Nil THEN returns(m, Nil)
    ELSE goesOn([m EXCEPT !.pos = r.pos],
                [Top(m) EXCEPT !.pc = "for", !.expr = r.expr,
                               !.p = tokenKindPrec(TokenAt(toks, r.pos))])

binaryPrimaryStep(m, toks, names) ==
    binaryAfterPrimary(m, parsePrimaryNamed(m.w, toks, m.pos, names), toks)

\* parseBinary: the tests of the for and the while loop, "getToken()" and
\* "auto right = parseBinary(p + 1);"
binaryFor(m, toks) ==
    IF Top(m).p < Top(m).prec THEN returns(m, Top(m).expr)
    ELSE IF tokenKindPrec(TokenAt(toks, m.pos)) = Top(m).p
    THEN callsFrom([m EXCEPT !.pos = m.pos + 1],
                   [Top(m) EXCEPT !.pc = "rightDone", !.op = TokenAt(toks, m.pos)],
                   Frame("parseBinary", "entry", Top(m).p + 1))
    ELSE goesOn(m, [Top(m) EXCEPT !.p = @ - 1])

RECURSIVE TokenStreams(_)
TokenStreams(n) ==
    IF n = 0 THEN {<<>>}
    ELSE TokenStreams(n - 1)
         \cup {Append(t, k) : t \in TokenStreams(n - 1), k \in StreamTokens}

\* The token stream is drawn, and what its identifier names.
InitSteps ==
    /\ removed = {}
    /\ intTypeSet = AlgebraWorld.int
    /\ ptrTypeSet = AlgebraWorld.ptr
    /\ arrayTypeSet = AlgebraWorld.arr
    /\ fnTypeSet = AlgebraWorld.ofn
    /\ fnSet = AlgebraWorld.fn
    /\ structMap = AlgebraWorld.smap
    /\ constStructMap = AlgebraWorld.cmap
    /\ structId = AlgebraWorld.sid
    /\ namedType = AlgebraWorld.named
    /\ \E toks \in TokenStreams(MaxTokens) : \E names \in Names :
           res = [op |-> "none", in |-> <<toks, names>>, out |-> Nil, warn |-> {}]
    /\ calls = {}

\* The running call takes its step at pc of fn.
Running(fn, pc) ==
    /\ res.op # "none"
    /\ res.out.ended = "running"
    /\ res.out.stack # <<>>
    /\ Top(res.out).fn = fn
    /\ Top(res.out).pc = pc

Steps(op, m) ==
    /\ SetWorld(m.w)
    /\ res' = [res EXCEPT !.op = op, !.out = m]
    /\ UNCHANGED <<calls, removed>>

\* parseExpression(): "return parseAssignment();"
ParseExpressionCall ==
    /\ res.op = "none"
    /\ Steps("parseExpression",
             Machine(World, <<Frame("parseAssignment", "entry", 0)>>, 1, Nil, "running"))

AssignmentCallsBinary ==
    /\ Running("parseAssignment", "entry")
    /\ Steps("assignmentCallsBinary", assignmentCallsBinary(res.out))

AssignmentAfterBinary ==
    /\ Running("parseAssignment", "binaryDone")
    /\ Steps("assignmentAfterBinary", assignmentAfterBinary(res.out))

AssignmentWhile ==
    /\ Running("parseAssignment", "while")
    /\ Steps("assignmentWhile", assignmentWhile(res.out, res.in[1]))

AssignmentAfterRight ==
    /\ Running("parseAssignment", "rightDone")
    /\ Steps("assignmentAfterRight", afterRight(res.out, "while"))

BinaryPrimary ==
    /\ Running("parseBinary", "entry")
    /\ Steps("binaryPrimary", binaryPrimaryStep(res.out, res.in[1], res.in[2]))

BinaryFor ==
    /\ Running("parseBinary", "for")
    /\ Steps("binaryFor", binaryFor(res.out, res.in[1]))

BinaryAfterRight ==
    /\ Running("parseBinary", "rightDone")
    /\ Steps("binaryAfterRight", afterRight(res.out, "for"))

NextSteps ==
    \/ ParseExpressionCall
    \/ AssignmentCallsBinary
    \/ AssignmentAfterBinary
    \/ AssignmentWhile
    \/ AssignmentAfterRight
    \/ BinaryPrimary
    \/ BinaryFor
    \/ BinaryAfterRight

\* parseExpression step by step over drawn token streams.
SpecSteps == InitSteps /\ [][NextSteps]_vars

\* The process is scheduled as long as it has a step to take.
SpecStepsFair == SpecSteps /\ WF_vars(NextSteps)

\* ---- C1 -------------------------------------------------------------------
\* An alias: a node that carries an alias name, or a node of structMap that
\* createAlias has filled with the data of another struct type.
isAlias(t) ==
    IF isStruct(t)
    THEN t.map = "struct" /\ (DataOf(t).id # t.key \/ DataOf(t).constFlag)
    ELSE IF isVoid(t) THEN FALSE
    ELSE t.alias # ""

RECURSIVE hasAlias(_)
hasAlias(t) ==
    \/ isAlias(t)
    \/ (isPointer(t) /\ ~t.isNull /\ hasAlias(t.ref))
    \/ (isArray(t) /\ hasAlias(t.ref))
    \/ (isFunction(t) /\ (hasAlias(t.ret)
                            \/ \E i \in 1..Len(t.params) : hasAlias(t.params[i])))

\* The type a named alias node was made for.
aliasTarget(t) == [t EXCEPT !.alias = ""]

namedAliases == {t \in LiveTypes : ~isStruct(t) /\ isAlias(t)}

\* A recorded call <<constructor, inputs, reference returned>>.
callOp(c) == c[1]
callIn(c) == c[2]
callOut(c) == c[3]

functionCalls == {c \in calls : callOp(c) = "function"}

C2_SameInputsSameReference ==
    \A c, d \in calls :
        (callOp(c) = callOp(d) /\ callIn(c) = callIn(d)) => callOut(c) = callOut(d)

\* ---- C3 .. C6 ---------------------------------------------------------------
\* const_removed(t) as the registry answers it in the current state.
constRemoved(t) == getConstRemoved(World, t, 0).out

Succeeds(out) == out # Nil /\ out # Abort

\* C3: for types a and b with equals(const_removed(a), const_removed(b)),
\* common(a, b) returns a's type, and the returned type is const whenever a
\* or b is const.
C3_CommonConstPromoted ==
    LET a == res.in[1]
        b == res.in[2]
    IN (res.op = "common" /\ equals(constRemoved(a), constRemoved(b))) =>
           /\ Succeeds(res.out)
           /\ equals(constRemoved(res.out), constRemoved(a))
           /\ (hasConstFlag(a) \/ hasConstFlag(b)) => hasConstFlag(res.out)

\* C4: convert(T, T) returns exactly T, const-qualified T included: the same
\* reference with the same const flag.
C4_ConvertSameTypeIsIdentity ==
    (res.op = "convert" /\ res.in[1] = res.in[2]) => res.out = res.in[1]

\* C5: for an array type from and a non-null pointer type to, convert(from, to)
\* succeeds if and only if from's element type converts to to.ref or one of
\* the two is void, and when it succeeds the result is from.
C5_ArrayToPointer ==
    LET from == res.in[1]
        to == res.in[2]
    IN (res.op = "convert" /\ isArray(from) /\ isPointer(to) /\ ~isNullPointer(to)) =>
           /\ Succeeds(res.out) <=>
                  \/ Succeeds(convert(World, from.ref, to.ref, 0).out)
                  \/ isVoid(from.ref)
                  \/ isVoid(to.ref)
           /\ Succeeds(res.out) => res.out = from

\* C6: explicit_cast(from, to) returns a type whenever convert(from, to) does,
\* and for every pointer-to-pointer, pointer-to-integer and integer-to-pointer
\* pair.
C6_ExplicitCastAllows ==
    LET from == res.in[1]
        to == res.in[2]
    IN (/\ res.op = "explicitCast"
        /\ \/ Succeeds(convert(World, from, to, 0).out)
           \/ (isPointer(from) /\ isPointer(to))
           \/ (isPointer(from) /\ isInteger(to))
           \/ (isInteger(from) /\ isPointer(to)))
       => Succeeds(res.out)

\* ---- C9, C10 ---------------------------------------------------------------
\* The operator and the operands a promotion call was given.
promKind == res.in[1]
promLeft == res.in[2]
promRight == res.in[3]

IsError(type) == type = Nil \/ type = Fatal

\* C9: for integer operands of types L and R with C = common(L, R) (when L
\* and R differ in width or signedness, C is the integer of max(bits), unsigned
\* if either is unsigned): +, -, *, /, % yield type C with both operands cast
\* to C; the comparisons yield bool with both operands cast to C; && and ||
\* yield bool with both operands cast to bool.
C9_IntegerPromotion ==
    LET L == promLeft.type
        R == promRight.type
        C == common(World, L, R, 0).out
        bool == getBool(World, 0).out
        out == res.out
    IN (res.op = "binary" /\ isInteger(L) /\ isInteger(R)) =>
           /\ (L.bits # R.bits \/ L.signed # R.signed) =>
                  /\ isInteger(C)
                  /\ C.bits = Max(L.bits, R.bits)
                  /\ C.signed = (L.signed /\ R.signed)
           /\ promKind \in ArithmeticKinds =>
                  out.type = C /\ out.left.type = C /\ out.right.type = C
           /\ promKind \in CompareKinds =>
                  out.type = bool /\ out.left.type = C /\ out.right.type = C
           /\ promKind \in LogicalKinds =>
                  out.type = bool /\ out.left.type = bool /\ out.right.type = bool

\* C9 witness: i8 + u16 was promoted to u16 and the left operand was cast.
C9_Witness ==
    /\ res.op = "binary"
    /\ promKind = "ADD"
    /\ promLeft.type = tI8
    /\ promRight.type = tU16
    /\ res.out.type = tU16
    /\ res.out.left.cast
    /\ ~res.out.right.cast

\* C10: every assignment operator over every operand shape, and prefix and
\* postfix ++ and --, yield an error result whenever the target operand's type
\* is const-qualified or the target is not an lvalue.
C10_ConstOrNotLValueIsError ==
    LET target == promLeft IN
    (/\ \/ (res.op = "binary" /\ promKind \in AssignKinds)
        \/ (res.op = "unary" /\ promKind \in IncDecKinds)
     /\ hasConstFlag(target.type) \/ ~target.lvalue)
    => IsError(res.out.type)

\* ---- C7 -------------------------------------------------------------------
\* C7: for every type T of the registry, const_of(T) is defined and
\* const_of(const_of(T)) is the same reference as const_of(T).
C7_ConstOfDefinedAndIdempotent ==
    \A T \in LiveTypes :
        LET c == getConst(World, T, 0) IN
        /\ c.out # Nil
        /\ getConst(c.w, c.out, 0).out = c.out

\* ---- C8 -------------------------------------------------------------------
\* A step that is a complete() call on the struct node t.
CompleteCalled == res' # res /\ res'.op = "complete"

\* C8: a complete(struct, members) call on a struct that is not complete yet
\* returns the struct and records the members (flag, names, types and the
\* name-to-position index); a call on a struct that is complete returns none
\* and leaves the registry, hence flag, names, types and index, as it was.
\* So in a sequence of complete() calls the first succeeds and the later fail.
C8_CompleteOnlyOnce ==
    [][CompleteCalled =>
         LET t == res'.in[1]
             before == structMap[t.key]
             after == structMap'[t.key]
         IN IF before.isComplete
            THEN /\ res'.out = Nil
                 /\ UNCHANGED <<structMap, constStructMap, intTypeSet, ptrTypeSet,
                                arrayTypeSet, fnSet, namedType>>
            ELSE /\ res'.out = t
                 /\ after.isComplete
                 /\ after.ident = res'.in[2]
                 /\ after.type = res'.in[3]
                 /\ DOMAIN after.index = {after.ident[i] : i \in DOMAIN after.ident}
                 /\ \A n \in DOMAIN after.index : after.ident[after.index[n]] = n
      ]_vars

\* C8 witness: a struct was completed, and a later complete() call with other
\* members returned none.
C8_Witness ==
    /\ res.op = "complete"
    /\ res.out = Nil
    /\ structMap[res.in[1].key].isComplete
    /\ structMap[res.in[1].key].ident # res.in[2]

\* ---- C11, C12, C13 ---------------------------------------------------------
isNonNullPointer(t) == isPointer(t) /\ ~isNullPointer(t)

\* C11: for a non-null pointer operand P of type T and an integer operand I,
\* binary promotion succeeds with result type T for P + I, for I + P (the
\* returned left operand is the pointer), for P += I with P an lvalue, and for
\* P - I.
C11_PointerPlusMinusInteger ==
    res.op = "binary" =>
        /\ (/\ isNonNullPointer(promLeft.type) /\ isInteger(promRight.type)
            /\ \/ promKind \in {"ADD", "SUB"}
               \/ promKind = "ADD_ASSIGN" /\ promLeft.lvalue)
           => res.out.type = promLeft.type
        /\ (/\ promKind = "ADD"
            /\ isInteger(promLeft.type) /\ isNonNullPointer(promRight.type))
           => /\ res.out.type = promRight.type
              /\ res.out.left.type = promRight.type

\* C12: for pointer operands P and Q, P - Q yields signed(64) if and only if
\* the two pointers have equal element types; with unequal element types it
\* yields an error result.
C12_PointerDifference ==
    (/\ res.op = "binary" /\ promKind = "SUB"
     /\ isNonNullPointer(promLeft.type) /\ isNonNullPointer(promRight.type))
    => IF equals(promLeft.type.ref, promRight.type.ref)
       THEN res.out.type = IntNode(64, TRUE, FALSE, "")
       ELSE IsError(res.out.type)

\* C13: for a non-const lvalue pointer operand P of type T and an integer
\* operand I, P -= I succeeds with result type T and the integer operand cast
\* to the size type (unsigned 64).
C13_PointerSubAssignInteger ==
    (/\ res.op = "binary" /\ promKind = "SUB_ASSIGN"
     /\ isPointer(promLeft.type) /\ ~hasConstFlag(promLeft.type)
     /\ promLeft.lvalue /\ isInteger(promRight.type))
    => /\ res.out.type = promLeft.type
       /\ res.out.right.type = IntNode(64, FALSE, FALSE, "")

\* ---- C14 -------------------------------------------------------------------
\* C14: unary promotion of minus yields the child's own type when the child is
\* an integer and when the child is a float, and yields an error result for
\* every other child type.
C14_MinusIntegerOrFloat ==
    (res.op = "unary" /\ promKind = "MINUS") =>
        IF isInteger(promLeft.type) \/ isFloatType(promLeft.type)
        THEN res.out.type = promLeft.type
        ELSE IsError(res.out.type)

\* ---- C15, C16 --------------------------------------------------------------
callFn == res.in[1]
callArg == res.in[2]
callLoc == res.in[3]

\* C15: call promotion yields the callee's return type if and only if the
\* callee's type is a function type and either len(args) = len(params), or
\* len(args) > len(params) and the function is varg; in every other case it
\* yields an error: fatal when a location is supplied, the none type when no
\* location is supplied.
C15_CallArgumentCount ==
    res.op = "call" =>
        IF /\ isFunction(callFn.type)
           /\ \/ Len(callArg) = Len(callFn.type.params)
              \/ Len(callArg) > Len(callFn.type.params) /\ callFn.type.varg
        THEN res.out.type = callFn.type.ret
        ELSE res.out.type = IF callLoc THEN Fatal ELSE Nil

\* The type the i-th argument of a call has to have after promotion.
promotedArgType(i) ==
    IF i <= Len(callFn.type.params) THEN callFn.type.params[i]
    ELSE IF isArray(callArg[i].type)
    THEN PtrNode(callArg[i].type.ref, FALSE, FALSE, "")
    ELSE callArg[i].type

\* C16: in a successful call promotion the returned argument list has the
\* length and order of the input; the i-th returned argument is the i-th input
\* argument with the type params[i] for i < len(params), and beyond that with
\* the type pointer(element) if its type is an array and with its own type
\* otherwise; the result type is the function's return type.
C16_CallArguments ==
    (res.op = "call" /\ ~IsError(res.out.type)) =>
        /\ Len(res.out.arg) = Len(callArg)
        /\ \A i \in 1..Len(callArg) :
               /\ res.out.arg[i].type = promotedArgType(i)
               /\ res.out.arg[i] = ImplicitCastCreate(callArg[i], promotedArgType(i))
        /\ res.out.type = callFn.type.ret

\* C16 witness: a varg call f(u16, array, u16) whose first argument was cast to
\* the parameter type i8, whose array argument decayed to a pointer and whose
\* last argument was left as it was.
C16_Witness ==
    /\ res.op = "call"
    /\ callFn.type = tFnVarg
    /\ Len(callArg) = 3
    /\ callArg[1].type = tU16 /\ res.out.arg[1].type = tI8 /\ res.out.arg[1].cast
    /\ isArray(callArg[2].type) /\ isPointer(res.out.arg[2].type)
    /\ callArg[3].type = tU16 /\ res.out.arg[3] = callArg[3]
    /\ res.out.type = tU16

\* ---- C17 -------------------------------------------------------------------
promLoc == res.in[4]

\* C17: for every illegal operator/operand combination (an index expression
\* whose index is no integer and an index on the null pointer included), unary
\* and binary promotion invoked without a location return the none type and
\* never call fatal(): without a location the result is a type or none.
C17_NoFatalWithoutLocation ==
    (res.op \in {"binary", "unary"} /\ ~promLoc) => res.out.type # Fatal

\* ---- C18 -------------------------------------------------------------------
\* The reference grammar over the tokens lo..hi of toks: with an assignment
\* operator the expression splits at the first one (assignments group right
\* to left, below every binary operator); else it splits at the last of the
\* binary operators of the lowest precedence (equal precedence groups left
\* to right, higher precedence binds tighter).
Least(S) == CHOOSE k \in S : \A j \in S : k <= j
Greatest(S) == CHOOSE k \in S : \A j \in S : k >= j

SplitAt(toks, lo, hi) ==
    LET assigns == {k \in lo..hi : toks[k] \in AssignTokens}
        ops == {k \in lo..hi : toks[k] \in BinaryTokens}
        low == Least({tokenKindPrec(toks[k]) : k \in ops})
    IN IF assigns # {} THEN Least(assigns)
       ELSE Greatest({k \in ops : tokenKindPrec(toks[k]) = low})

RECURSIVE ReferenceTree(_, _, _)
ReferenceTree(toks, lo, hi) ==
    IF lo = hi THEN [op |-> toks[lo], pos |-> lo]
    ELSE [op |-> getBinaryExprKind(toks[SplitAt(toks, lo, hi)]),
          left |-> ReferenceTree(toks, lo, SplitAt(toks, lo, hi) - 1),
          right |-> ReferenceTree(toks, SplitAt(toks, lo, hi) + 1, hi)]

\* An assignment whose target is no identifier is in the tree: promotion
\* rejects it, the target being no lvalue.
RECURSIVE AssignsToNonLValue(_)
AssignsToNonLValue(tree) ==
    /\ tree.op \notin PrimaryTokens
    /\ \/ tree.op \in AssignKinds /\ tree.left.op # "IDENTIFIER"
       \/ AssignsToNonLValue(tree.left)
       \/ AssignsToNonLValue(tree.right)

parseTokens == res.in

branchTree == res.in[1]
branchOutcome == res.in[2]

\* A tree of && and || over comparisons.
RECURSIVE LogicalOnly(_)
LogicalOnly(e) ==
    \/ e.kind = "CMP"
    \/ e.kind \in {"LOGICAL_AND", "LOGICAL_OR"} /\ LogicalOnly(e.left) /\ LogicalOnly(e.right)

\* What the tree is worth under the outcomes v of its comparisons.
RECURSIVE Truth(_, _)
Truth(e, v) ==
    IF e.kind = "CMP" THEN v[e.id]
    ELSE IF e.kind = "LOGICAL_AND" THEN Truth(e.left, v) /\ Truth(e.right, v)
    ELSE Truth(e.left, v) \/ Truth(e.right, v)

\* The comparisons short-circuit evaluation goes through, in order: the right
\* operand of && only after a true left one, of || only after a false left one.
RECURSIVE ShortCircuit(_, _)
ShortCircuit(e, v) ==
    IF e.kind = "CMP" THEN <<e.id>>
    ELSE IF Truth(e.left, v) = (e.kind = "LOGICAL_AND")
    THEN ShortCircuit(e.left, v) \o ShortCircuit(e.right, v)
    ELSE ShortCircuit(e.left, v)

IsPrefix(s, t) == Len(s) <= Len(t) /\ SubSeq(t, 1, Len(s)) = s

\* C19: in the code condJmp(T, F) emits for a tree of && and || over
\* comparisons, the run evaluates the comparisons short-circuit evaluation
\* goes through and no other: when it leaves to T for a && b it has evaluated
\* a and b, a false a leaves to F with b not evaluated, a true a of a || b
\* leaves to T with b not evaluated, and b is evaluated only after a false a.
C19_ShortCircuit ==
    (res.op = "condJmp" /\ LogicalOnly(branchTree)) =>
        /\ ~res.out.gen.aborted
        /\ ~res.out.run.fell
        /\ IsPrefix(res.out.run.evaluated, ShortCircuit(branchTree, branchOutcome))
        /\ res.out.run.exit # 0 =>
              /\ res.out.run.evaluated = ShortCircuit(branchTree, branchOutcome)
              /\ res.out.run.exit =
                    IF Truth(branchTree, branchOutcome) THEN trueLabel ELSE falseLabel

\* C19 witness: (a || b) && b with a true and b false has left to F, b
\* evaluated once only, as right operand of &&.
C19_Witness ==
    /\ res.op = "condJmp"
    /\ branchTree = LogicalAnd(LogicalOr(Cmp(1), Cmp(2)), Cmp(2))
    /\ branchOutcome[1] /\ ~branchOutcome[2]
    /\ res.out.run.exit = falseLabel
    /\ res.out.run.evaluated = <<1, 2>>

\* ---- C20 -------------------------------------------------------------------
IsTerminator(i) == i.op \in {"jmp", "cjmp"}
Targets(i) == IF i.op = "jmp" THEN {i.t} ELSE IF i.op = "cjmp" THEN {i.t, i.f} ELSE {}

\* Every block of the code is closed by one terminator: the code ends with a
\* terminator, a terminator is followed by a label only, and a label follows
\* a terminator only.
BlocksClosed(code) ==
    /\ code # <<>>
    /\ IsTerminator(code[Len(code)])
    /\ \A k \in 1..(Len(code) - 1) :
           IsTerminator(code[k]) <=> code[k + 1].op = "label"

\* Every label created is defined once, and a jump goes to T, to F or to a
\* label created.
LabelsDefined(gen) ==
    /\ \A l \in (falseLabel + 1)..(gen.next - 1) :
           Cardinality({k \in 1..Len(gen.code) :
                           gen.code[k].op = "label" /\ gen.code[k].t = l}) = 1
    /\ \A k \in 1..Len(gen.code) :
           /\ Targets(gen.code[k]) \subseteq 1..(gen.next - 1)
           /\ gen.code[k].op = "label" => gen.code[k].t \in (falseLabel + 1)..(gen.next - 1)

\* C20: for every tree of comparisons, &&, ||, casts and proxies the code
\* condJmp(T, F) emits closes every block with exactly one terminator, jumps
\* only to T, to F and to labels it defines exactly once, and its run never
\* falls through past the last instruction.
C20_BlocksTerminated ==
    res.op = "condJmp" =>
        /\ ~res.out.gen.aborted
        /\ BlocksClosed(res.out.gen.code)
        /\ LabelsDefined(res.out.gen)
        /\ ~res.out.run.fell

\* ---- C21 -------------------------------------------------------------------
exprNode == res.in[1]
IsInnerNode(e) == e.node \in {"BinaryExpr", "CastExpr", "ProxyExpr"}

C22_HasAddress ==
    res.op = "queries" =>
        /\ (exprNode.node = "BinaryExpr" /\ exprNode.kind = "ASSIGN") => res.out.hasAddr
        /\ (exprNode.node = "BinaryExpr" /\ exprNode.kind = "MEMBER"
              /\ hasAddr(exprNode.left)) => res.out.hasAddr
        /\ exprNode.node = "ProxyExpr" => res.out.hasAddr = hasAddr(exprNode.expr)

\* ---- C23 -------------------------------------------------------------------
\* C23: loadConstValue on an expression for which isConst holds fails no
\* assertion (and so returns a constant).
C23_ConstantLoads ==
    res.op = "loadConstValue" => ~res.out.aborted

\* ---- C25 -------------------------------------------------------------------
\* C25: while loadValue, loadAddr or condJmp on the root generates code,
\* loadConstValue is called on constant nodes only and loadAddr on nodes that
\* have an address only.
C25_GeneratorPreconditions ==
    res.op \in {"loadValue", "loadAddr", "condJmp"} =>
        \A i \in 1..Len(res.out.calls) :
            /\ res.out.calls[i][1] = "loadConstValue" => isConst(res.out.calls[i][2])
            /\ res.out.calls[i][1] = "loadAddr" => hasAddr(res.out.calls[i][2])

\* ---- C26 -------------------------------------------------------------------
\* C26: the ALU operation emitted for *, / and % follows the signedness of the
\* type of the expression: smul, sdiv, smod for a signed integer, umul, udiv,
\* umod for an unsigned one.
C26_AluOpBySignedness ==
    (/\ res.op = "loadValue"
     /\ exprNode.node = "BinaryExpr" /\ exprNode.kind \in {"MUL", "DIV", "MOD"}
     /\ ~res.out.aborted) =>
        /\ res.out.alu # <<>>
        /\ res.out.alu[Len(res.out.alu)] =
              (IF exprNode.type.signed THEN "S" ELSE "U") \o exprNode.kind

\* ---- C24 -------------------------------------------------------------------
\* C24: add returns an entry exactly when the lookup in the current scope
\* found none just before it, whatever the enclosing scopes and the root
\* scope declare, and addToRootScope exactly when the lookup in the root scope
\* found none; this after any sequence of openScope, closeScope, add and
\* addToRootScope.
C24_AddIffNotDeclared ==
    res.op \in {"add", "addToRootScope"} => (res.out.entry <=> ~res.out.found)

\* C24 witness: an identifier that the root scope declares and that a scope
\* closed by now declared has been added in a scope opened since.
C24_Witness ==
    /\ res.op = "add"
    /\ res.out.entry
    /\ Len(res.out.scopes) = 2
    /\ res.in \in res.out.closed
    /\ res.in \in res.out.scopes[1]

\* ---- C27 -------------------------------------------------------------------
\* The struct of its own id and its const flavor agree.
FlavorsAgree(k) ==
    /\ k \in DOMAIN constStructMap
    /\ constStructMap[k].isComplete = structMap[k].isComplete
    /\ constStructMap[k].ident = structMap[k].ident

\* An alias, the node of structMap that holds the data of struct id, reports
\* what the struct of that id reports.
AliasAgrees(k) ==
    /\ structMap[k].id \in DOMAIN structMap
    /\ structMap[k].isComplete = structMap[structMap[k].id].isComplete
    /\ structMap[k].ident = structMap[structMap[k].id].ident

\* C27: after any sequence of createIncompleteStruct, createAlias and complete
\* the non-const and the const flavor of every struct are complete together
\* with the same member names in the same order, and an alias of a struct is
\* complete with the same members as its target.
C27_FlavorsAndAliasesInLockStep ==
    \A k \in DOMAIN structMap :
        IF structMap[k].id = k THEN FlavorsAgree(k) ELSE AliasAgrees(k)

\* ---- C28 -------------------------------------------------------------------
\* C28: after a statement has been parsed the scope depth is what it was
\* before, and after a function declaration or definition has been parsed the
\* depth is the root depth.
C28_ScopesBalanced ==
    /\ res.op = "parseStmt" => Len(res.out.after) = Len(res.out.before)
    /\ res.op = "parseFn" => Len(res.out.after) = 1

\* ---- C29 -------------------------------------------------------------------
convFrom == res.in[1]
convTo == res.in[2]
EqualUpToConst == equals(constRemoved(convFrom), constRemoved(convTo))

\* C29: a conversion between two types that are equal once const is removed
\* is never rejected, and getTypeConversion writes the "discards const
\* qualifier" warning exactly when from is const-qualified and to is not.
C29_ConstDiscardWarning ==
    (res.op \in {"convert", "getTypeConversion"} /\ EqualUpToConst) =>
        /\ res.out \notin {Nil, Abort}
        /\ res.op = "getTypeConversion" =>
               ("discards const qualifier" \in res.warn
                   <=> (hasConstFlag(convFrom) /\ ~hasConstFlag(convTo)))

\* ---- C30 -------------------------------------------------------------------
parseStarted == res.op # "none"
\* the call of parseExpression has returned
parseReturned == parseStarted /\ res.out.ended = "running" /\ res.out.stack = <<>>
parseEnded == parseStarted /\ (res.out.stack = <<>> \/ res.out.ended # "running")

\* A step that begins the next iteration of a loop: the operator was seen and
\* the right operand is about to be parsed.
ParsesNextOperand ==
    /\ parseStarted
    /\ res.out.stack # <<>>
    /\ Top(res.out).pc \in {"while", "for"}
    /\ Len(res'.out.stack) > Len(res.out.stack)

PositionMoves ==
    parseStarted =>
        /\ res'.out.pos >= res.out.pos
        /\ ParsesNextOperand => res'.out.pos > res.out.pos

\* C30: on every finite token stream parseExpression comes to an end; each
\* iteration of the loops of parseAssignment and parseBinary consumes a token
\* before the next operand is parsed, the position never moves backwards,
\* and the call ends by returning an expression, by returning none or with
\* a fatal diagnostic.
C30_ParseExpressionTerminates ==
    /\ <>parseEnded
    /\ [][PositionMoves]_vars
    /\ [](parseEnded => (parseReturned \/ res.out.ended = "fatal"))

====
